---- MODULE Spec2Model ----
(***************************************************************************)
(* MOS 6502 emulator core: registers, status register, 64 KiB memory with  *)
(* read-only ranges, page-1 stack, addressing-mode resolver, instruction   *)
(* handlers, trap door and the step/run loop of CpuImpl.                   *)
(***************************************************************************)
EXTENDS Integers, Sequences, FiniteSets, TLC

VARIABLES
    accumulator,               \* CpuImpl.accumulator (u8)
    index_x,                   \* CpuImpl.index_x (u8)
    index_y,                   \* CpuImpl.index_y (u8)
    status,                    \* StatusRegister byte, N V _ B D I Z C
    sp,                        \* StackPointerImpl.sp (u8)
    pc,                        \* AddressBus.pc (u16)
    memory,                    \* MemoryImpl.memory, sparse: absent address = 0
    ranges,                    \* MemoryImpl.ranges, sequence of <<lo, hi>> half-open
    address_traps,             \* TrapDoor.address_traps
    opcode_traps,              \* TrapDoor.opcode_traps
    accumulated_cycles,        \* CpuImpl.accumulated_cycles
    accumulated_instructions,  \* CpuImpl.accumulated_instructions
    overflow_checks,           \* build profile: TRUE = arithmetic overflow panics, FALSE = wraps
    running,                   \* TRUE while control is inside the loop of run()
    result,                    \* result of the last facade call: "Ok" or the error
    calls,                     \* the facade calls made so far, in order
    frames,                    \* JSRs executed and not yet returned from: <<address, sp before>>
    last                       \* the last step: what was decoded and the CPU before it

vars == <<accumulator, index_x, index_y, status, sp, pc, memory, ranges,
          address_traps, opcode_traps, accumulated_cycles,
          accumulated_instructions, overflow_checks, running, result, calls, frames, last>>

----------------------------------------------------------------------------
(* Widths and fixed addresses *)

Byte == 0..255
SystemVectorReset == 65532
SystemVectorIRQ == 65534


\* bit n of v
Bit(v, n) == (v \div (2 ^ n)) % 2

\* bitwise operations on bytes
BitAnd(a, b) ==
    Bit(a, 0) * Bit(b, 0) + 2 * Bit(a, 1) * Bit(b, 1) + 4 * Bit(a, 2) * Bit(b, 2)
    + 8 * Bit(a, 3) * Bit(b, 3) + 16 * Bit(a, 4) * Bit(b, 4) + 32 * Bit(a, 5) * Bit(b, 5)
    + 64 * Bit(a, 6) * Bit(b, 6) + 128 * Bit(a, 7) * Bit(b, 7)

BitOr(a, b) == a + b - BitAnd(a, b)
BitXor(a, b) == a + b - 2 * BitAnd(a, b)
BitNot(a) == 255 - a

\* the offset byte taken as unsigned
SignExtend_unsigned(v) == v

\* `v as i8 as u16`: sign extension of an offset byte to 16 bits
SignExtend(v) == IF v >= 128 THEN v + 65280 ELSE v

----------------------------------------------------------------------------
(* Status register *)

CarryMask == 1
ZeroMask == 2
InterruptMask == 4
DecimalMask == 8
BreakMask == 16
UnusedMask == 32
OverflowMask == 64
NegativeMask == 128

Flag(st, mask) == (st \div mask) % 2 = 1

SetFlag(st, mask, b) ==
    IF b THEN (IF Flag(st, mask) THEN st ELSE st + mask)
    ELSE (IF Flag(st, mask) THEN st - mask ELSE st)

\* update_from that forgets the sign bit
update_from_zero_only(st, value) == SetFlag(st, ZeroMask, value = 0)

update_from(st, value) ==
    SetFlag(SetFlag(st, NegativeMask, Bit(value, 7) = 1), ZeroMask, value = 0)

----------------------------------------------------------------------------
(* Memory: 64 KiB, all zero at construction, kept as a sparse function *)

\* MemoryImpl::default: the size of the memory
MemorySize == 64 * 1024

\* the error of MemoryImpl::read, "Ok" when it returns the byte
read_error(address) == IF address >= MemorySize THEN "InvalidAddress" ELSE "Ok"

read(mem, address) == IF address \in DOMAIN mem THEN mem[address] ELSE 0

Store(mem, address, value) ==
    IF value = 0
    THEN [x \in (DOMAIN mem) \ {address} |-> mem[x]]
    ELSE [x \in (DOMAIN mem) \cup {address} |-> IF x = address THEN value ELSE mem[x]]

\* a check that looks at the most recently added range only
IsReadOnly_latest_range(rs, address) ==
    rs # << >> /\ rs[Len(rs)][1] <= address /\ address < rs[Len(rs)][2]

IsReadOnly(rs, address) ==
    \E i \in 1..Len(rs) : rs[i][1] <= address /\ address < rs[i][2]

----------------------------------------------------------------------------
(* The CPU as a record, so that handlers are functions from CPU to CPU.    *)
(* Field err is "Ok" or the CpuError (or "Panic") that aborted the call;   *)
(* every primitive is a no-op once err is set, which models `?`.           *)

Cpu ==
    [accumulator |-> accumulator, index_x |-> index_x, index_y |-> index_y,
     status |-> status, sp |-> sp, pc |-> pc, memory |-> memory,
     ranges |-> ranges, err |-> "Ok"]

Fail(c, e) == IF c.err = "Ok" THEN [c EXCEPT !.err = e] ELSE c

\* u16 addition: panics with overflow checks, wraps without
AddU16(c, a, b) ==
    IF a + b > 65535
    THEN IF overflow_checks THEN [c |-> Fail(c, "Panic"), v |-> 0]
         ELSE [c |-> c, v |-> a + b - 65536]
    ELSE [c |-> c, v |-> a + b]

\* u16 subtraction: panics with overflow checks, wraps without
SubU16(c, a, b) ==
    IF a - b < 0
    THEN IF overflow_checks THEN [c |-> Fail(c, "Panic"), v |-> 0]
         ELSE [c |-> c, v |-> a - b + 65536]
    ELSE [c |-> c, v |-> a - b]

\* write_byte that stores only the low seven bits
write_byte_seven_bits(c, address, value, ignore_readonly) ==
    IF c.err # "Ok" THEN c
    ELSE IF address >= MemorySize THEN Fail(c, "InvalidAddress")
    ELSE IF ~ignore_readonly /\ IsReadOnly(c.ranges, address)
    THEN Fail(c, "ReadOnlyMemory")
    ELSE [c EXCEPT !.memory = Store(c.memory, address, value % 128)]

\* MemoryImpl::write_byte
write_byte(c, address, value, ignore_readonly) ==
    IF c.err # "Ok" THEN c
    ELSE IF address >= MemorySize THEN Fail(c, "InvalidAddress")
    ELSE IF ~ignore_readonly /\ IsReadOnly(c.ranges, address)
    THEN Fail(c, "ReadOnlyMemory")
    ELSE [c EXCEPT !.memory = Store(c.memory, address, value)]

\* MemoryImpl::write
write(c, address, value) == write_byte(c, address, value, FALSE)

\* MemoryImpl::write_word
write_word(c, address, value) ==
    LET c1 == write(c, address, value % 256)
        hi == AddU16(c1, address, 1)
    IN write(hi.c, hi.v, value \div 256)

\* MemoryImpl::read_word
read_word(c, address) ==
    LET lo == read(c.memory, address)
        hi == AddU16(c, address, 1)
    IN [c |-> hi.c, v |-> read(c.memory, hi.v) * 256 + lo]

\* MemoryImpl::read_zero_page_word
read_zero_page_word(c, address) == read_word(c, address)

\* AddressBus::fetch_byte_at_pc
fetch_byte_at_pc(c) ==
    IF c.err # "Ok" THEN [c |-> c, v |-> 0]
    ELSE LET op == read(c.memory, c.pc)
             n == AddU16(c, c.pc, 1)
         IN [c |-> IF n.c.err = "Ok" THEN [c EXCEPT !.pc = n.v] ELSE n.c, v |-> op]

\* a word fetch that reads both bytes at the same PC
fetch_word_at_pc_advances_once(c) ==
    LET lo == fetch_byte_at_pc(c)
        hi == fetch_byte_at_pc(c)
    IN [c |-> hi.c, v |-> hi.v * 256 + lo.v]

\* AddressBus::fetch_word_at_pc
fetch_word_at_pc(c) ==
    LET lo == fetch_byte_at_pc(c)
        hi == fetch_byte_at_pc(lo.c)
    IN [c |-> hi.c, v |-> hi.v * 256 + lo.v]

\* AddressBus::set_pc
set_pc(c, address) == IF c.err # "Ok" THEN c ELSE [c EXCEPT !.pc = address]

----------------------------------------------------------------------------
(* Stack pointer *)

\* an effective address without the fixed high byte
sp_as_u16_low_byte(c) == c.sp

sp_as_u16(c) == 256 + c.sp

push_byte(c, value) ==
    IF c.err # "Ok" THEN c
    ELSE IF c.sp = 0 THEN Fail(c, "StackOverflow")
    ELSE LET c1 == write(c, sp_as_u16(c), value)
         IN IF c1.err # "Ok" THEN c1 ELSE [c1 EXCEPT !.sp = (c.sp + 255) % 256]

\* pop_byte that reads before it moves the stack pointer
pop_byte_reads_first(c) ==
    IF c.err # "Ok" THEN [c |-> c, v |-> 0]
    ELSE IF c.sp = 255 THEN [c |-> Fail(c, "StackOverflow"), v |-> 0]
    ELSE [c |-> [c EXCEPT !.sp = (c.sp + 1) % 256], v |-> read(c.memory, sp_as_u16(c))]

pop_byte(c) ==
    IF c.err # "Ok" THEN [c |-> c, v |-> 0]
    ELSE IF c.sp = 255 THEN [c |-> Fail(c, "StackOverflow"), v |-> 0]
    ELSE LET c1 == [c EXCEPT !.sp = (c.sp + 1) % 256]
         IN [c |-> c1, v |-> read(c1.memory, sp_as_u16(c1))]

\* push_word that refuses only a stack pointer of 0
push_word_checks_zero_only(c, value) ==
    IF c.err # "Ok" THEN c
    ELSE IF c.sp = 0 THEN Fail(c, "StackOverflow")
    ELSE LET c1 == write_word(c, sp_as_u16(c) - 1, value)
         IN IF c1.err # "Ok" THEN c1 ELSE [c1 EXCEPT !.sp = (c.sp + 254) % 256]

push_word(c, value) ==
    IF c.err # "Ok" THEN c
    ELSE IF c.sp <= 1 THEN Fail(c, "StackOverflow")
    ELSE LET c1 == write_word(c, sp_as_u16(c) - 1, value)
         IN IF c1.err # "Ok" THEN c1 ELSE [c1 EXCEPT !.sp = (c.sp + 254) % 256]

pop_word(c) ==
    IF c.err # "Ok" THEN [c |-> c, v |-> 0]
    ELSE IF c.sp >= 254 THEN [c |-> Fail(c, "StackOverflow"), v |-> 0]
    ELSE LET c1 == [c EXCEPT !.sp = (c.sp + 1) % 256]
             w == read_word(c1, sp_as_u16(c1))
         IN [c |-> IF w.c.err # "Ok" THEN w.c ELSE [w.c EXCEPT !.sp = (c1.sp + 1) % 256],
             v |-> w.v]

\* StackPointer::set_sp keeps the low 8 bits
set_sp(c, value) == IF c.err # "Ok" THEN c ELSE [c EXCEPT !.sp = value % 256]

----------------------------------------------------------------------------
(* Addressing-mode resolver *)

\* zero page indexed: the sum wraps within the zero page
zero_page_indexed(f, index) == [c |-> f.c, v |-> (f.v + index) % 256]

\* the target of a branch: the PC after the offset byte plus the signed offset
relative_target(f) == [c |-> f.c, v |-> (f.c.pc + SignExtend(f.v)) % 65536]

\* `word + index` on u16
absolute_indexed(f, index) == AddU16(f.c, f.v, index)

\* the pointer's high byte always read from the next address
indirect_target_next_address(c, f) ==
    [c |-> f.c,
     v |-> read(c.memory, (f.v + 1) % 65536) * 256 + read(c.memory, f.v)]

\* the pointer's high byte comes from the same page when the low byte is at 0xFF
indirect_target(c, f) ==
    LET low_indirect == read(c.memory, f.v)
        high_indirect == IF f.v % 256 = 255
                         THEN read(c.memory, (f.v \div 256) * 256)
                         ELSE read(c.memory, f.v + 1)
    IN [c |-> f.c, v |-> high_indirect * 256 + low_indirect]

indexed_x_indirect(f, index) == read_zero_page_word(f.c, (f.v + index) % 256)

indirect_indexed_y(f, index) == absolute_indexed(read_zero_page_word(f.c, f.v), index)

get_effective_address(mode, c) ==
    IF c.err # "Ok" THEN [c |-> c, v |-> 0]
    ELSE CASE mode = "ZeroPage" -> fetch_byte_at_pc(c)
      [] mode = "ZeroPageX" -> zero_page_indexed(fetch_byte_at_pc(c), c.index_x)
      [] mode = "ZeroPageY" -> zero_page_indexed(fetch_byte_at_pc(c), c.index_y)
      [] mode = "Relative" -> relative_target(fetch_byte_at_pc(c))
      [] mode = "Absolute" -> fetch_word_at_pc(c)
      [] mode = "AbsoluteX" -> absolute_indexed(fetch_word_at_pc(c), c.index_x)
      [] mode = "AbsoluteY" -> absolute_indexed(fetch_word_at_pc(c), c.index_y)
      [] mode = "Indirect" -> indirect_target(c, fetch_word_at_pc(c))
      [] mode = "IndexedXIndirect" -> indexed_x_indirect(fetch_byte_at_pc(c), c.index_x)
      [] mode = "IndirectIndexedY" -> indirect_indexed_y(fetch_byte_at_pc(c), c.index_y)
      [] OTHER -> [c |-> Fail(c, "InvalidAddressingMode"), v |-> 0]

\* the byte at effective address ea
read_at(c, ea) == [c |-> ea.c, v |-> read(c.memory, ea.v)]

get_effective_operand(mode, c) ==
    IF c.err # "Ok" THEN [c |-> c, v |-> 0]
    ELSE CASE mode = "Immediate" -> fetch_byte_at_pc(c)
      [] mode = "Accumulator" -> [c |-> c, v |-> c.accumulator]
      [] mode = "Relative" -> [c |-> Fail(c, "InvalidAddressingMode"), v |-> 0]
      [] OTHER -> read_at(c, get_effective_address(mode, c))

----------------------------------------------------------------------------
(* Instruction handlers: engine/ops. A handler resolves its operand o (or  *)
(* its effective address ea) once and then works on the registers.         *)

WithStatus(c, st) == IF c.err # "Ok" THEN c ELSE [c EXCEPT !.status = st]

validate_mode(mode, c) ==
    IF mode # "Implied" THEN Fail(c, "InvalidAddressingMode") ELSE c

\* alu.rs
is_overflow(a, b, result_high_bit) ==
    LET high_bit == Bit(result_high_bit % 256, 7)
        a_sign == Bit(a, 7)
        b_sign == Bit(b, 7)
    IN (a_sign = b_sign) /\ (a_sign # high_bit)

\* A + M + C -> A, C
add_with_carry(c, o, carry) ==
    LET res == c.accumulator + o.v + carry
        acc == res % 256
        st1 == SetFlag(o.c.status, OverflowMask, is_overflow(c.accumulator, o.v, acc))
        st2 == update_from(st1, acc)
        st3 == SetFlag(st2, CarryMask, res > 255)
    IN IF o.c.err # "Ok" THEN o.c
       ELSE [o.c EXCEPT !.accumulator = acc, !.status = st3]

\* ADC that forgets the carry-in
execute_adc_no_carry_in(mode, c) ==
    IF Flag(c.status, DecimalMask) THEN Fail(c, "Panic")
    ELSE add_with_carry(c, get_effective_operand(mode, c), 0)

execute_adc(mode, c) ==
    IF Flag(c.status, DecimalMask) THEN Fail(c, "Panic")
    ELSE add_with_carry(c, get_effective_operand(mode, c),
                        IF Flag(c.status, CarryMask) THEN 1 ELSE 0)

subtract_with_carry(register, operand, carry) ==
    LET borrow == IF carry THEN 0 ELSE 1
        res == register - operand + borrow
    IN <<res % 256, res >= 0, is_overflow(register, operand, res)>>

subtract_from_accumulator(c, o) ==
    LET r == subtract_with_carry(c.accumulator, o.v, Flag(c.status, CarryMask))
        st1 == SetFlag(o.c.status, OverflowMask, r[3])
        st2 == update_from(st1, r[1])
        st3 == SetFlag(st2, CarryMask, r[2])
    IN IF o.c.err # "Ok" THEN o.c
       ELSE [o.c EXCEPT !.accumulator = r[1], !.status = st3]

\* SBC that subtracts in binary whatever the D flag says
execute_sbc_ignores_decimal(mode, c) ==
    subtract_from_accumulator(c, get_effective_operand(mode, c))

execute_sbc(mode, c) ==
    IF Flag(c.status, DecimalMask) THEN Fail(c, "Panic")
    ELSE subtract_from_accumulator(c, get_effective_operand(mode, c))

Logical(c, o, op) ==
    LET acc == CASE op = "AND" -> BitAnd(c.accumulator, o.v)
                 [] op = "EOR" -> BitXor(c.accumulator, o.v)
                 [] op = "ORA" -> BitOr(c.accumulator, o.v)
    IN IF o.c.err # "Ok" THEN o.c
       ELSE [o.c EXCEPT !.accumulator = acc, !.status = update_from(o.c.status, acc)]

execute_and(mode, c) == Logical(c, get_effective_operand(mode, c), "AND")
execute_eor(mode, c) == Logical(c, get_effective_operand(mode, c), "EOR")
execute_ora(mode, c) == Logical(c, get_effective_operand(mode, c), "ORA")

AslOp(operand, old_carry) == <<(operand * 2) % 256, Bit(operand, 7) = 1>>
LsrOp(operand, old_carry) == <<operand \div 2, Bit(operand, 0) = 1>>
RolOp(operand, old_carry) ==
    <<((operand * 2) % 256) + (IF old_carry THEN 1 ELSE 0), Bit(operand, 7) = 1>>
\* a rotate right that shifts in 0
RorOp_shifts_in_zero(operand, old_carry) == <<operand \div 2, Bit(operand, 0) = 1>>

RorOp(operand, old_carry) ==
    <<(operand \div 2) + (IF old_carry THEN 128 ELSE 0), Bit(operand, 0) = 1>>
DecOp(operand, old_carry) == <<(operand + 255) % 256, FALSE>>
IncOp(operand, old_carry) == <<(operand + 1) % 256, FALSE>>

\* read_modify_write once the effective address ea is known
modify_at(mode, c, ea, op) ==
    LET operand == IF mode = "Accumulator" THEN c.accumulator ELSE read(c.memory, ea.v)
        old_carry == Flag(c.status, CarryMask)
        r == CASE op = "ASL" -> AslOp(operand, old_carry)
               [] op = "LSR" -> LsrOp(operand, old_carry)
               [] op = "ROL" -> RolOp(operand, old_carry)
               [] op = "ROR" -> RorOp(operand, old_carry)
               [] op = "DEC" -> DecOp(operand, old_carry)
               [] op = "INC" -> IncOp(operand, old_carry)
        st == SetFlag(update_from(ea.c.status, r[1]), CarryMask, r[2])
        c1 == WithStatus(ea.c, st)
    IN IF c1.err # "Ok" THEN c1
       ELSE IF mode = "Accumulator" THEN [c1 EXCEPT !.accumulator = r[1]]
       ELSE write(c1, ea.v, r[1])

read_modify_write(mode, c, op) ==
    modify_at(mode, c,
              IF mode = "Accumulator" THEN [c |-> c, v |-> 0]
              ELSE get_effective_address(mode, c),
              op)

execute_asl(mode, c) == read_modify_write(mode, c, "ASL")
execute_lsr(mode, c) == read_modify_write(mode, c, "LSR")
execute_rol(mode, c) == read_modify_write(mode, c, "ROL")
execute_ror(mode, c) == read_modify_write(mode, c, "ROR")
execute_dec(mode, c) == read_modify_write(mode, c, "DEC")
execute_inc(mode, c) == read_modify_write(mode, c, "INC")

execute_dex(mode, c) ==
    LET v == (c.index_x + 255) % 256
    IN IF mode # "Implied" THEN Fail(c, "InvalidAddressingMode")
       ELSE [c EXCEPT !.index_x = v, !.status = update_from(c.status, v)]

execute_dey(mode, c) ==
    LET v == (c.index_y + 255) % 256
    IN IF mode # "Implied" THEN Fail(c, "InvalidAddressingMode")
       ELSE [c EXCEPT !.index_y = v, !.status = update_from(c.status, v)]

execute_inx(mode, c) ==
    LET v == (c.index_x + 1) % 256
    IN IF mode # "Implied" THEN Fail(c, "InvalidAddressingMode")
       ELSE [c EXCEPT !.index_x = v, !.status = update_from(c.status, v)]

execute_iny(mode, c) ==
    LET v == (c.index_y + 1) % 256
    IN IF mode # "Implied" THEN Fail(c, "InvalidAddressingMode")
       ELSE [c EXCEPT !.index_y = v, !.status = update_from(c.status, v)]

\* flag_compare.rs
SetClear(mode, c, mask, b) ==
    WithStatus(validate_mode(mode, c), SetFlag(c.status, mask, b))

execute_clc(mode, c) == SetClear(mode, c, CarryMask, FALSE)
execute_cld(mode, c) == SetClear(mode, c, DecimalMask, FALSE)
execute_cli(mode, c) == SetClear(mode, c, InterruptMask, FALSE)
execute_clv(mode, c) == SetClear(mode, c, OverflowMask, FALSE)
execute_sec(mode, c) == SetClear(mode, c, CarryMask, TRUE)
execute_sed(mode, c) == SetClear(mode, c, DecimalMask, TRUE)
execute_sei(mode, c) == SetClear(mode, c, InterruptMask, TRUE)

bit_test(c, o) ==
    LET st1 == SetFlag(o.c.status, NegativeMask, Bit(o.v, 7) = 1)
        st2 == SetFlag(st1, OverflowMask, Bit(o.v, 6) = 1)
        st3 == SetFlag(st2, ZeroMask, BitAnd(c.accumulator, o.v) = 0)
    IN WithStatus(o.c, st3)

execute_bit(mode, c) == bit_test(c, get_effective_operand(mode, c))

\* register - operand with the given carry, flags only
compare_with(register, o, carry) ==
    LET r == subtract_with_carry(register, o.v, carry)
        st == SetFlag(update_from(o.c.status, r[1]), CarryMask, r[2])
    IN WithStatus(o.c, st)

\* compare that subtracts with the carry flag instead of a set carry
compare_register_with_carry_flag(register, mode, c) ==
    compare_with(register, get_effective_operand(mode, c), Flag(c.status, CarryMask))

compare_register(register, mode, c) ==
    compare_with(register, get_effective_operand(mode, c), TRUE)

execute_cmp(mode, c) == compare_register(c.accumulator, mode, c)
execute_cpx(mode, c) == compare_register(c.index_x, mode, c)
execute_cpy(mode, c) == compare_register(c.index_y, mode, c)

\* branch_jump.rs
jump_to(ea) == set_pc(ea.c, ea.v)

branch_to(ea, taken) == IF taken THEN jump_to(ea) ELSE ea.c

Branch(mode, c, taken) == branch_to(get_effective_address(mode, c), taken)

execute_bcc(mode, c) == Branch(mode, c, ~Flag(c.status, CarryMask))
execute_bcs(mode, c) == Branch(mode, c, Flag(c.status, CarryMask))
execute_beq(mode, c) == Branch(mode, c, Flag(c.status, ZeroMask))
execute_bmi(mode, c) == Branch(mode, c, Flag(c.status, NegativeMask))
execute_bne(mode, c) == Branch(mode, c, ~Flag(c.status, ZeroMask))
execute_bpl(mode, c) == Branch(mode, c, ~Flag(c.status, NegativeMask))
execute_bvc(mode, c) == Branch(mode, c, ~Flag(c.status, OverflowMask))
execute_bvs(mode, c) == Branch(mode, c, Flag(c.status, OverflowMask))

execute_jmp(mode, c) == jump_to(get_effective_address(mode, c))

\* set the PC to ea, then push the PC after the operand less back
call_to(ea, back) ==
    LET return_address == SubU16(ea.c, ea.c.pc, back)
    IN push_word(set_pc(return_address.c, ea.v), return_address.v)

\* JSR that pushes the address after the instruction
execute_jsr_pushes_next(mode, c) == call_to(get_effective_address(mode, c), 0)

execute_jsr(mode, c) == call_to(get_effective_address(mode, c), 1)

return_to(p) ==
    LET n == AddU16(p.c, p.v, 1)
    IN set_pc(n.c, n.v)

execute_rts(mode, c) ==
    IF mode # "Implied" THEN Fail(c, "InvalidAddressingMode")
    ELSE return_to(pop_word(c))

\* interrupt.rs
execute_brk(mode, c) ==
    IF mode # "Implied" THEN Fail(c, "InvalidAddressingMode")
    ELSE LET pushed_pc == (c.pc + 1) % 65536
             c1 == push_word(c, pushed_pc)
             c2 == push_byte(c1, BitOr(c.status, BreakMask))
         IN WithStatus(c2, SetFlag(c.status, BreakMask, TRUE))

\* a return that adds 1 to the popped PC, as RTS does
restore_status_plus_one(s, p) ==
    set_pc(WithStatus(p.c, BitAnd(s.v, 207)), (p.v + 1) % 65536)

restore_status(s, p) == set_pc(WithStatus(p.c, BitAnd(s.v, 207)), p.v)

execute_rti(mode, c) ==
    IF mode # "Implied" THEN Fail(c, "InvalidAddressingMode")
    ELSE LET s == pop_byte(c)
         IN restore_status(s, pop_word(s.c))

\* stack.rs
execute_pha(mode, c) ==
    IF mode # "Implied" THEN Fail(c, "InvalidAddressingMode")
    ELSE push_byte(c, c.accumulator)

\* a PHP that pushes the status byte as it is
execute_php_unmasked(mode, c) ==
    IF mode # "Implied" THEN Fail(c, "InvalidAddressingMode")
    ELSE push_byte(c, c.status)

execute_php(mode, c) ==
    IF mode # "Implied" THEN Fail(c, "InvalidAddressingMode")
    ELSE push_byte(c, BitAnd(c.status, 207))

execute_pla(mode, c) ==
    IF mode # "Implied" THEN Fail(c, "InvalidAddressingMode")
    ELSE LET p == pop_byte(c)
         IN IF p.c.err # "Ok" THEN p.c
            ELSE [p.c EXCEPT !.accumulator = p.v, !.status = update_from(c.status, p.v)]

\* a PLP that takes the pulled byte as it is
execute_plp_unmasked(mode, c) ==
    IF mode # "Implied" THEN Fail(c, "InvalidAddressingMode")
    ELSE LET p == pop_byte(c)
         IN WithStatus(p.c, p.v)

execute_plp(mode, c) ==
    IF mode # "Implied" THEN Fail(c, "InvalidAddressingMode")
    ELSE LET p == pop_byte(c)
         IN WithStatus(p.c, BitAnd(p.v, 207))

execute_tsx(mode, c) ==
    IF mode # "Implied" THEN Fail(c, "InvalidAddressingMode")
    ELSE [c EXCEPT !.index_x = c.sp, !.status = update_from(c.status, c.sp)]

execute_txs(mode, c) ==
    IF mode # "Implied" THEN Fail(c, "InvalidAddressingMode")
    ELSE WithStatus(set_sp(c, 256 + c.index_x), update_from(c.status, c.index_x))

\* transfer.rs
Load(c, o, field) ==
    IF o.c.err # "Ok" THEN o.c
    ELSE [o.c EXCEPT ![field] = o.v, !.status = update_from(c.status, o.v)]

execute_lda(mode, c) == Load(c, get_effective_operand(mode, c), "accumulator")
execute_ldx(mode, c) == Load(c, get_effective_operand(mode, c), "index_x")
execute_ldy(mode, c) == Load(c, get_effective_operand(mode, c), "index_y")

\* the write result is unwrapped: a failed write panics
store_unwrapped(c, ea, value) ==
    LET w == write(ea.c, ea.v, value)
    IN IF ea.c.err # "Ok" THEN ea.c
       ELSE IF w.err # "Ok" THEN [w EXCEPT !.err = "Panic"]
       ELSE WithStatus(w, update_from(c.status, value))

execute_sta(mode, c) == store_unwrapped(c, get_effective_address(mode, c), c.accumulator)

store(c, ea, value) == WithStatus(write(ea.c, ea.v, value), update_from(c.status, value))

execute_stx(mode, c) == store(c, get_effective_address(mode, c), c.index_x)
execute_sty(mode, c) == store(c, get_effective_address(mode, c), c.index_y)

Transfer(mode, c, value, field) ==
    IF mode # "Implied" THEN Fail(c, "InvalidAddressingMode")
    ELSE [c EXCEPT ![field] = value, !.status = update_from(c.status, value)]

execute_tax(mode, c) == Transfer(mode, c, c.accumulator, "index_x")
execute_tay(mode, c) == Transfer(mode, c, c.accumulator, "index_y")
execute_txa(mode, c) == Transfer(mode, c, c.index_x, "accumulator")
execute_tya(mode, c) == Transfer(mode, c, c.index_y, "accumulator")

\* ops/mod.rs
execute_nop(mode, c) == c

----------------------------------------------------------------------------
(* Decoder: the opcode table (opcode, mnemonic, mode, bytes, cycles) that  *)
(* build.rs turns into the match of decode()                               *)

OpcodesMos6502 ==
  <<
    <<0, "BRK", "IMP", 1, 7>>, <<1, "ORA", "INDX", 2, 6>>, <<5, "ORA", "ZP", 2, 3>>,
    <<6, "ASL", "ZP", 2, 5>>, <<8, "PHP", "IMP", 1, 3>>, <<9, "ORA", "IMM", 2, 2>>,
    <<10, "ASL", "ACC", 1, 2>>, <<13, "ORA", "ABS", 3, 4>>, <<14, "ASL", "ABS", 3, 6>>,
    <<16, "BPL", "REL", 2, 2>>, <<17, "ORA", "INDY", 2, 5>>, <<21, "ORA", "ZPX", 2, 4>>,
    <<22, "ASL", "ZPX", 2, 6>>, <<24, "CLC", "IMP", 1, 2>>, <<25, "ORA", "ABSY", 3, 4>>,
    <<29, "ORA", "ABSX", 3, 4>>, <<30, "ASL", "ABSX", 3, 7>>, <<32, "JSR", "ABS", 3, 6>>,
    <<33, "AND", "INDX", 2, 6>>, <<36, "BIT", "ZP", 2, 3>>, <<37, "AND", "ZP", 2, 3>>,
    <<38, "ROL", "ZP", 2, 5>>, <<40, "PLP", "IMP", 1, 4>>, <<41, "AND", "IMM", 2, 2>>,
    <<42, "ROL", "ACC", 1, 2>>, <<44, "BIT", "ABS", 3, 4>>, <<45, "AND", "ABS", 3, 4>>,
    <<46, "ROL", "ABS", 3, 6>>, <<48, "BMI", "REL", 2, 2>>, <<49, "AND", "INDY", 2, 5>>,
    <<53, "AND", "ZPX", 2, 4>>, <<54, "ROL", "ZPX", 2, 6>>, <<56, "SEC", "IMP", 1, 2>>,
    <<57, "AND", "ABSY", 3, 4>>, <<61, "AND", "ABSX", 3, 4>>, <<62, "ROL", "ABSX", 3, 7>>,
    <<64, "RTI", "IMP", 1, 6>>, <<65, "EOR", "INDX", 2, 6>>, <<69, "EOR", "ZP", 2, 3>>,
    <<70, "LSR", "ZP", 2, 5>>, <<72, "PHA", "IMP", 1, 3>>, <<73, "EOR", "IMM", 2, 2>>,
    <<74, "LSR", "ACC", 1, 2>>, <<76, "JMP", "ABS", 3, 3>>, <<77, "EOR", "ABS", 3, 4>>,
    <<78, "LSR", "ABS", 3, 6>>, <<80, "BVC", "REL", 2, 2>>, <<81, "EOR", "INDY", 2, 5>>,
    <<85, "EOR", "ZPX", 2, 4>>, <<86, "LSR", "ZPX", 2, 6>>, <<88, "CLI", "IMP", 1, 2>>,
    <<89, "EOR", "ABSY", 3, 4>>, <<93, "EOR", "ABSX", 3, 4>>, <<94, "LSR", "ABSX", 3, 7>>,
    <<96, "RTS", "IMP", 1, 6>>, <<97, "ADC", "INDX", 2, 6>>, <<101, "ADC", "ZP", 2, 3>>,
    <<102, "ROR", "ZP", 2, 5>>, <<104, "PLA", "IMP", 1, 4>>, <<105, "ADC", "IMM", 2, 2>>,
    <<106, "ROR", "ACC", 1, 2>>, <<108, "JMP", "IND", 3, 5>>, <<109, "ADC", "ABS", 3, 4>>,
    <<110, "ROR", "ABS", 3, 6>>, <<112, "BVS", "REL", 2, 2>>, <<113, "ADC", "INDY", 2, 5>>,
    <<117, "ADC", "ZPX", 2, 4>>, <<118, "ROR", "ZPX", 2, 6>>, <<120, "SEI", "IMP", 1, 2>>,
    <<121, "ADC", "ABSY", 3, 4>>, <<125, "ADC", "ABSX", 3, 4>>, <<126, "ROR", "ABSX", 3, 7>>,
    <<129, "STA", "INDX", 2, 6>>, <<132, "STY", "ZP", 2, 3>>, <<133, "STA", "ZP", 2, 3>>,
    <<134, "STX", "ZP", 2, 3>>, <<136, "DEY", "IMP", 1, 2>>, <<138, "TXA", "IMP", 1, 2>>,
    <<140, "STY", "ABS", 3, 4>>, <<141, "STA", "ABS", 3, 4>>, <<142, "STX", "ABS", 3, 4>>,
    <<144, "BCC", "REL", 2, 2>>, <<145, "STA", "INDY", 2, 6>>, <<148, "STY", "ZPX", 2, 4>>,
    <<149, "STA", "ZPX", 2, 4>>, <<150, "STX", "ZPY", 2, 4>>, <<152, "TYA", "IMP", 1, 2>>,
    <<153, "STA", "ABSY", 3, 5>>, <<154, "TXS", "IMP", 1, 2>>, <<157, "STA", "ABSX", 3, 5>>,
    <<160, "LDY", "IMM", 2, 2>>, <<161, "LDA", "INDX", 2, 6>>, <<162, "LDX", "IMM", 2, 2>>,
    <<164, "LDY", "ZP", 2, 3>>, <<165, "LDA", "ZP", 2, 3>>, <<166, "LDX", "ZP", 2, 3>>,
    <<168, "TAY", "IMP", 1, 2>>, <<169, "LDA", "IMM", 2, 2>>, <<170, "TAX", "IMP", 1, 2>>,
    <<172, "LDY", "ABS", 3, 4>>, <<173, "LDA", "ABS", 3, 4>>, <<174, "LDX", "ABS", 3, 4>>,
    <<176, "BCS", "REL", 2, 2>>, <<177, "LDA", "INDY", 2, 5>>, <<180, "LDY", "ZPX", 2, 4>>,
    <<181, "LDA", "ZPX", 2, 4>>, <<182, "LDX", "ZPY", 2, 4>>, <<184, "CLV", "IMP", 1, 2>>,
    <<185, "LDA", "ABSY", 3, 4>>, <<186, "TSX", "IMP", 1, 2>>, <<188, "LDY", "ABSX", 3, 4>>,
    <<189, "LDA", "ABSX", 3, 4>>, <<190, "LDX", "ABSY", 3, 4>>, <<192, "CPY", "IMM", 2, 2>>,
    <<193, "CMP", "INDX", 2, 6>>, <<196, "CPY", "ZP", 2, 3>>, <<197, "CMP", "ZP", 2, 3>>,
    <<198, "DEC", "ZP", 2, 5>>, <<200, "INY", "IMP", 1, 2>>, <<201, "CMP", "IMM", 2, 2>>,
    <<202, "DEX", "IMP", 1, 2>>, <<204, "CPY", "ABS", 3, 4>>, <<205, "CMP", "ABS", 3, 4>>,
    <<206, "DEC", "ABS", 3, 6>>, <<208, "BNE", "REL", 2, 2>>, <<209, "CMP", "INDY", 2, 5>>,
    <<213, "CMP", "ZPX", 2, 4>>, <<214, "DEC", "ZPX", 2, 6>>, <<216, "CLD", "IMP", 1, 2>>,
    <<217, "CMP", "ABSY", 3, 4>>, <<221, "CMP", "ABSX", 3, 4>>, <<222, "DEC", "ABSX", 3, 7>>,
    <<224, "CPX", "IMM", 2, 2>>, <<225, "SBC", "INDX", 2, 6>>, <<228, "CPX", "ZP", 2, 3>>,
    <<229, "SBC", "ZP", 2, 3>>, <<230, "INC", "ZP", 2, 5>>, <<232, "INX", "IMP", 1, 2>>,
    <<233, "SBC", "IMM", 2, 2>>, <<234, "NOP", "IMP", 1, 2>>, <<236, "CPX", "ABS", 3, 4>>,
    <<237, "SBC", "ABS", 3, 4>>, <<238, "INC", "ABS", 3, 6>>, <<240, "BEQ", "REL", 2, 2>>,
    <<241, "SBC", "INDY", 2, 5>>, <<245, "SBC", "ZPX", 2, 4>>, <<246, "INC", "ZPX", 2, 6>>,
    <<248, "SED", "IMP", 1, 2>>, <<249, "SBC", "ABSY", 3, 4>>, <<253, "SBC", "ABSX", 3, 4>>,
    <<254, "INC", "ABSX", 3, 7>>
  >>

\* build.rs: to_addressing_mode
to_addressing_mode(csv_mode) ==
    CASE csv_mode = "IMP" -> "Implied"
      [] csv_mode = "ACC" -> "Accumulator"
      [] csv_mode = "IMM" -> "Immediate"
      [] csv_mode = "ZP" -> "ZeroPage"
      [] csv_mode = "ZPX" -> "ZeroPageX"
      [] csv_mode = "ZPY" -> "ZeroPageY"
      [] csv_mode = "REL" -> "Relative"
      [] csv_mode = "ABS" -> "Absolute"
      [] csv_mode = "ABSX" -> "AbsoluteX"
      [] csv_mode = "ABSY" -> "AbsoluteY"
      [] csv_mode = "IND" -> "Indirect"
      [] csv_mode = "INDX" -> "IndexedXIndirect"
      [] csv_mode = "INDY" -> "IndirectIndexedY"

\* an illegal byte decodes to ILL: Implied, no operand, no cycles, BRK handler
IllegalInstruction(opcode) ==
    [opcode |-> "ILL", mode |-> "Implied", execute |-> "BRK",
     extra_bytes |-> 0, cycles |-> 0, hex_opcode |-> opcode]

DecodeTable ==
    [b \in Byte |->
        LET rows == {i \in 1..Len(OpcodesMos6502) : OpcodesMos6502[i][1] = b}
        IN IF rows = {} THEN IllegalInstruction(b)
           ELSE LET r == OpcodesMos6502[CHOOSE i \in rows : TRUE]
                IN [opcode |-> r[2], mode |-> to_addressing_mode(r[3]),
                    execute |-> r[2], extra_bytes |-> r[4] - 1,
                    cycles |-> r[5], hex_opcode |-> b]]

decode(opcode) == DecodeTable[opcode]

\* (decoded.execute)(decoded.mode, cpu)
Execute(h, mode, c) ==
    CASE h = "ADC" -> execute_adc(mode, c) [] h = "AND" -> execute_and(mode, c)
      [] h = "ASL" -> execute_asl(mode, c) [] h = "BCC" -> execute_bcc(mode, c)
      [] h = "BCS" -> execute_bcs(mode, c) [] h = "BEQ" -> execute_beq(mode, c)
      [] h = "BIT" -> execute_bit(mode, c) [] h = "BMI" -> execute_bmi(mode, c)
      [] h = "BNE" -> execute_bne(mode, c) [] h = "BPL" -> execute_bpl(mode, c)
      [] h = "BRK" -> execute_brk(mode, c) [] h = "BVC" -> execute_bvc(mode, c)
      [] h = "BVS" -> execute_bvs(mode, c) [] h = "CLC" -> execute_clc(mode, c)
      [] h = "CLD" -> execute_cld(mode, c) [] h = "CLI" -> execute_cli(mode, c)
      [] h = "CLV" -> execute_clv(mode, c) [] h = "CMP" -> execute_cmp(mode, c)
      [] h = "CPX" -> execute_cpx(mode, c) [] h = "CPY" -> execute_cpy(mode, c)
      [] h = "DEC" -> execute_dec(mode, c) [] h = "DEX" -> execute_dex(mode, c)
      [] h = "DEY" -> execute_dey(mode, c) [] h = "EOR" -> execute_eor(mode, c)
      [] h = "INC" -> execute_inc(mode, c) [] h = "INX" -> execute_inx(mode, c)
      [] h = "INY" -> execute_iny(mode, c) [] h = "JMP" -> execute_jmp(mode, c)
      [] h = "JSR" -> execute_jsr(mode, c) [] h = "LDA" -> execute_lda(mode, c)
      [] h = "LDX" -> execute_ldx(mode, c) [] h = "LDY" -> execute_ldy(mode, c)
      [] h = "LSR" -> execute_lsr(mode, c) [] h = "NOP" -> execute_nop(mode, c)
      [] h = "ORA" -> execute_ora(mode, c) [] h = "PHA" -> execute_pha(mode, c)
      [] h = "PHP" -> execute_php(mode, c) [] h = "PLA" -> execute_pla(mode, c)
      [] h = "PLP" -> execute_plp(mode, c) [] h = "ROL" -> execute_rol(mode, c)
      [] h = "ROR" -> execute_ror(mode, c) [] h = "RTI" -> execute_rti(mode, c)
      [] h = "RTS" -> execute_rts(mode, c) [] h = "SBC" -> execute_sbc(mode, c)
      [] h = "SEC" -> execute_sec(mode, c) [] h = "SED" -> execute_sed(mode, c)
      [] h = "SEI" -> execute_sei(mode, c) [] h = "STA" -> execute_sta(mode, c)
      [] h = "STX" -> execute_stx(mode, c) [] h = "STY" -> execute_sty(mode, c)
      [] h = "TAX" -> execute_tax(mode, c) [] h = "TAY" -> execute_tay(mode, c)
      [] h = "TSX" -> execute_tsx(mode, c) [] h = "TXA" -> execute_txa(mode, c)
      [] h = "TXS" -> execute_txs(mode, c) [] h = "TYA" -> execute_tya(mode, c)

----------------------------------------------------------------------------
(* Trap door: cpu_traps.rs *)

BrkTrap == [opcode |-> 0, requested_outcome |-> "StopAfter"]

\* pre_execute that scans the opcode traps before the address traps
pre_execute_opcode_first(decoded, address) ==
    LET am == {i \in 1..Len(address_traps) : address_traps[i].address = address}
        om == {i \in 1..Len(opcode_traps) : opcode_traps[i].opcode = decoded.hex_opcode}
    IN IF om # {} THEN "StopAfter"
       ELSE IF am # {}
       THEN address_traps[CHOOSE i \in am : \A j \in am : i <= j].requested_outcome
       ELSE "Continue"

pre_execute(decoded, address) ==
    LET am == {i \in 1..Len(address_traps) : address_traps[i].address = address}
        om == {i \in 1..Len(opcode_traps) : opcode_traps[i].opcode = decoded.hex_opcode}
    IN IF am # {}
       THEN address_traps[CHOOSE i \in am : \A j \in am : i <= j].requested_outcome
       ELSE IF om # {} THEN "StopAfter"
       ELSE "Continue"

----------------------------------------------------------------------------
(* Disassembler: disassembler.rs. A line is the string format! builds.     *)

HexDigits ==
    <<"0", "1", "2", "3", "4", "5", "6", "7", "8", "9", "A", "B", "C", "D", "E", "F">>

\* {:02X}
Hex2(v) == HexDigits[((v \div 16) % 16) + 1] \o HexDigits[(v % 16) + 1]

\* {:04X}
Hex4(v) == Hex2(v \div 256) \o Hex2(v % 256)

\* DecodedInstruction::get_mnemonic
get_mnemonic(decoded) ==
    IF decoded.opcode = "ILL" THEN "ILL(" \o Hex2(decoded.hex_opcode) \o ")"
    ELSE decoded.opcode

as_word(extra_bytes) == extra_bytes[2] * 256 + extra_bytes[1]

\* the two's complement offset applied to the address with wrapping arithmetic
addr_from_offset(offset, next_pc) ==
    IF BitAnd(offset, 128) = 128
    THEN (next_pc - ((BitNot(offset) + 1) % 256) + 65536) % 65536
    ELSE (next_pc + offset) % 65536

\* the Relative operand, given `address + 2` on u16
relative_operand(next, extra_bytes) ==
    [c |-> next.c,
     v |-> "$" \o Hex2(extra_bytes[1]) \o " (" \o Hex4(addr_from_offset(extra_bytes[1], next.v)) \o ")"]

get_operand(mode, c, address, extra_bytes) ==
    CASE mode = "Implied" -> [c |-> c, v |-> ""]
      [] mode = "Accumulator" -> [c |-> c, v |-> "A"]
      [] mode = "Immediate" -> [c |-> c, v |-> "#$" \o Hex2(extra_bytes[1])]
      [] mode = "ZeroPage" -> [c |-> c, v |-> "$" \o Hex2(extra_bytes[1])]
      [] mode = "ZeroPageX" -> [c |-> c, v |-> "$" \o Hex2(extra_bytes[1]) \o ",X"]
      [] mode = "ZeroPageY" -> [c |-> c, v |-> "$" \o Hex2(extra_bytes[1]) \o ",Y"]
      [] mode = "Relative" -> relative_operand(AddU16(c, address, 2), extra_bytes)
      [] mode = "Absolute" -> [c |-> c, v |-> "$" \o Hex4(as_word(extra_bytes))]
      [] mode = "AbsoluteX" -> [c |-> c, v |-> "$" \o Hex4(as_word(extra_bytes)) \o ",X"]
      [] mode = "AbsoluteY" -> [c |-> c, v |-> "$" \o Hex4(as_word(extra_bytes)) \o ",Y"]
      [] mode = "Indirect" -> [c |-> c, v |-> "($" \o Hex4(as_word(extra_bytes)) \o ")"]
      [] mode = "IndexedXIndirect" -> [c |-> c, v |-> "($" \o Hex2(extra_bytes[1]) \o ",X)"]
      [] mode = "IndirectIndexedY" -> [c |-> c, v |-> "($" \o Hex2(extra_bytes[1]) \o "),Y"]

\* the line and the next address, given the decoded instruction and its operand text
disassembled(address, decoded, operand) ==
    [c |-> operand.c,
     line |-> Hex4(address) \o " " \o get_mnemonic(decoded)
              \o (IF operand.v = "" THEN "" ELSE " " \o operand.v),
     next |-> (address + decoded.extra_bytes + 1) % 65536]

\* the operand bytes read for an instruction with n extra bytes
operand_bytes(c, address, n) ==
    <<IF n >= 1 THEN read(c.memory, (address + 1) % 65536) ELSE 0,
      IF n >= 2 THEN read(c.memory, (address + 2) % 65536) ELSE 0>>

disassemble_decoded(c, address, decoded) ==
    disassembled(address, decoded,
                 get_operand(decoded.mode, c, address,
                             operand_bytes(c, address, decoded.extra_bytes)))

disassemble(c, address) == disassemble_decoded(c, address, decode(read(c.memory, address)))

----------------------------------------------------------------------------
(* CpuImpl::step as a function of the CPU before the call *)

fetch_and_decode(c) ==
    LET f == fetch_byte_at_pc(c)
    IN [c |-> f.c, decoded |-> decode(f.v)]

\* a step that counts an instruction whose handler failed
step_result_counts_failures(address, decoded, outcome, executes, after) ==
    [c |-> after,
     address |-> address,
     decoded |-> decoded,
     outcome |-> outcome,
     counted |-> executes,
     is_break |-> IF after.err # "Ok" THEN FALSE
                  ELSE IF outcome = "Handled" THEN FALSE
                  ELSE IF outcome = "Stop" THEN TRUE
                  ELSE outcome = "StopAfter"]

\* what step() leaves and returns, given the CPU after the match on the outcome
step_result(address, decoded, outcome, executes, after) ==
    [c |-> after,
     address |-> address,
     decoded |-> decoded,
     outcome |-> outcome,
     counted |-> executes /\ after.err = "Ok",
     is_break |-> IF after.err # "Ok" THEN FALSE
                  ELSE IF outcome = "Handled" THEN FALSE
                  ELSE IF outcome = "Stop" THEN TRUE
                  ELSE outcome = "StopAfter"]

\* a match that runs the handler for Stop as well
step_outcome_runs_on_stop(address, fd, outcome) ==
    LET executes == fd.c.err = "Ok" /\ outcome \in {"Continue", "StopAfter", "Stop"}
    IN step_result(address, fd.decoded, outcome, executes,
                   IF executes THEN Execute(fd.decoded.execute, fd.decoded.mode, fd.c)
                   ELSE fd.c)

\* the match on the trap outcome: execute the instruction or not
step_outcome(address, fd, outcome) ==
    LET executes == fd.c.err = "Ok" /\ outcome \in {"Continue", "StopAfter"}
    IN step_result(address, fd.decoded, outcome, executes,
                   IF executes THEN Execute(fd.decoded.execute, fd.decoded.mode, fd.c)
                   ELSE fd.c)

step_decoded(address, fd) == step_outcome(address, fd, pre_execute(fd.decoded, address))

step(c) == step_decoded(c.pc, fetch_and_decode(c))

----------------------------------------------------------------------------
(* Bounds of the model *)

MaxCalls == 3            \* facade calls per behaviour
MaxInstructions == 12    \* instructions executed per behaviour
MaxSteps == 4            \* steps of an instruction-level scenario

----------------------------------------------------------------------------
(* State after CpuImpl::new() *)

NoStep ==
    [address |-> 0, decoded |-> IllegalInstruction(255), outcome |-> "None",
     counted |-> FALSE, is_break |-> FALSE, before |-> Cpu,
     instructions |-> 0, cycles |-> 0, frames |-> << >>]

New ==
    /\ accumulator = 0
    /\ index_x = 0
    /\ index_y = 0
    /\ status = 0
    /\ sp = 255
    /\ pc = 0
    /\ memory = << >>
    /\ ranges = << >>
    /\ address_traps = << >>
    /\ opcode_traps = <<BrkTrap>>
    /\ accumulated_cycles = 0
    /\ accumulated_instructions = 0

Init ==
    /\ New
    /\ overflow_checks \in BOOLEAN
    /\ running = FALSE
    /\ result = "Ok"
    /\ calls = << >>
    /\ frames = << >>
    /\ last = NoStep

\* assign the CPU fields of record c to the state
Apply(c) ==
    /\ accumulator' = c.accumulator
    /\ index_x' = c.index_x
    /\ index_y' = c.index_y
    /\ status' = c.status
    /\ sp' = c.sp
    /\ pc' = c.pc
    /\ memory' = c.memory
    /\ ranges' = c.ranges

Alive == result # "Panic"

----------------------------------------------------------------------------
(* Facade operations: cpu_impl.rs *)

reset(c) ==
    [c EXCEPT !.sp = 255, !.pc = SystemVectorReset, !.accumulator = 0,
              !.index_x = 0, !.index_y = 0, !.status = update_from(c.status, 0)]

Reset ==
    /\ Alive /\ ~running /\ Len(calls) < MaxCalls
    /\ Apply(reset(Cpu))
    /\ accumulated_cycles' = 0
    /\ accumulated_instructions' = 0
    /\ result' = "Ok"
    /\ calls' = Append(calls, [op |-> "reset"])
    /\ UNCHANGED <<address_traps, opcode_traps, overflow_checks, running, frames, last>>

\* MemoryImpl::load_program: copy byte i to start_addr + i, ignoring read-only ranges
RECURSIVE load_bytes(_, _, _, _)
load_bytes(c, start_addr, program, i) ==
    IF i > Len(program) \/ c.err # "Ok" THEN c
    ELSE LET a == AddU16(c, start_addr, i - 1)
         IN load_bytes(write_byte(a.c, a.v, program[i], TRUE), start_addr, program, i + 1)

load_program(c, start_addr, program, is_readonly) ==
    LET c1 == load_bytes(c, start_addr, program, 1)
        hi == AddU16(c1, start_addr, Len(program) % 65536)
    IN IF c1.err # "Ok" \/ ~is_readonly THEN c1
       ELSE IF hi.c.err # "Ok" THEN hi.c
       ELSE [c1 EXCEPT !.ranges = Append(c1.ranges, <<start_addr, hi.v>>)]

SimpleProgram == [start |-> 1536, bytes |-> <<169, 66, 133, 15, 0>>]
FlagsProgram == [start |-> 1536, bytes |-> <<169, 127, 105, 1, 56, 248, 120, 0>>]
VectorProgram == [start |-> 65532, bytes |-> <<76, 0, 6>>]
\* JMP $0600 at 0x0600
LoopProgram == [start |-> 1536, bytes |-> <<76, 0, 6>>]
\* RTS on an empty stack
RtsProgram == [start |-> 1536, bytes |-> <<96, 0>>]
\* INC $0600 on its own opcode byte, then BRK
IncProgram == [start |-> 1536, bytes |-> <<238, 0, 6, 0>>]
Programs == {SimpleProgram, FlagsProgram, VectorProgram, LoopProgram, RtsProgram, IncProgram}

LoadProgram(p, is_readonly) ==
    /\ Alive /\ ~running /\ Len(calls) < MaxCalls
    /\ LET c == load_program(Cpu, p.start, p.bytes, is_readonly)
       IN /\ Apply(c)
          /\ result' = c.err
    /\ calls' = Append(calls, [op |-> "load_program", start |-> p.start,
                               bytes |-> p.bytes, readonly |-> is_readonly])
    /\ UNCHANGED <<address_traps, opcode_traps, accumulated_cycles,
                   accumulated_instructions, overflow_checks, running, frames, last>>

SetAddresses == {15, 1537}
SetValues == {0, 128}

SetByteAt(address, value) ==
    /\ Alive /\ ~running /\ Len(calls) < MaxCalls
    /\ LET c == write(Cpu, address, value)
       IN /\ Apply(c)
          /\ result' = c.err
    /\ calls' = Append(calls, [op |-> "set_byte_at", address |-> address, value |-> value])
    /\ UNCHANGED <<address_traps, opcode_traps, accumulated_cycles,
                   accumulated_instructions, overflow_checks, running, frames, last>>

\* CpuImpl::set_pc
SetPc(addr) ==
    /\ Alive /\ ~running /\ Len(calls) < MaxCalls
    /\ LET c == set_pc(Cpu, addr)
       IN /\ Apply(c)
          /\ result' = c.err
    /\ calls' = Append(calls, [op |-> "set_pc", addr |-> addr])
    /\ UNCHANGED <<address_traps, opcode_traps, accumulated_cycles,
                   accumulated_instructions, overflow_checks, running, frames, last>>

\* a step that counts the instruction whatever the trap outcome was
Stepped_counts_always(s) ==
    /\ Apply(s.c)
    /\ accumulated_instructions' = accumulated_instructions + 1
    /\ accumulated_cycles' = accumulated_cycles + s.decoded.cycles
    /\ result' = s.c.err
    /\ frames' = frames
    /\ last' = [address |-> s.address, decoded |-> s.decoded, outcome |-> s.outcome,
                counted |-> s.counted, is_break |-> s.is_break, before |-> Cpu,
                instructions |-> accumulated_instructions,
                cycles |-> accumulated_cycles, frames |-> frames]

\* the state after a call of CpuImpl::step that gave s
Stepped(s) ==
    /\ Apply(s.c)
    /\ accumulated_instructions' = accumulated_instructions + (IF s.counted THEN 1 ELSE 0)
    /\ accumulated_cycles' = accumulated_cycles + (IF s.counted THEN s.decoded.cycles ELSE 0)
    /\ result' = s.c.err
    /\ frames' = IF s.counted /\ s.decoded.opcode = "JSR"
                  THEN Append(frames, <<s.address, sp>>)
                  ELSE IF s.counted /\ s.decoded.opcode = "RTS" /\ frames # << >>
                  THEN SubSeq(frames, 1, Len(frames) - 1)
                  ELSE frames
    /\ last' = [address |-> s.address, decoded |-> s.decoded, outcome |-> s.outcome,
                counted |-> s.counted, is_break |-> s.is_break, before |-> Cpu,
                instructions |-> accumulated_instructions,
                cycles |-> accumulated_cycles, frames |-> frames]

\* one call of CpuImpl::step on the current state
DoStep == Stepped(step(Cpu))

StartAddresses == {1536}

\* Option<u16>
None == << >>
Some(a) == <<a>>

\* a run that starts its counters at 0
Run_clears_counters(start_addr) ==
    /\ Alive /\ ~running /\ Len(calls) < MaxCalls
    /\ pc' = (IF start_addr = None THEN SystemVectorReset ELSE start_addr[1])
    /\ running' = TRUE
    /\ result' = "Ok"
    /\ calls' = Append(calls, [op |-> "run", start_addr |-> start_addr])
    /\ accumulated_cycles' = 0
    /\ accumulated_instructions' = 0
    /\ UNCHANGED <<accumulator, index_x, index_y, status, sp, memory, ranges,
                   address_traps, opcode_traps, overflow_checks, frames, last>>

\* run(): set the PC, then loop over step() until it breaks or fails
Run(start_addr) ==
    /\ Alive /\ ~running /\ Len(calls) < MaxCalls
    /\ pc' = (IF start_addr = None THEN SystemVectorReset ELSE start_addr[1])
    /\ running' = TRUE
    /\ result' = "Ok"
    /\ calls' = Append(calls, [op |-> "run", start_addr |-> start_addr])
    /\ UNCHANGED <<accumulator, index_x, index_y, status, sp, memory, ranges,
                   address_traps, opcode_traps, accumulated_cycles,
                   accumulated_instructions, overflow_checks, frames, last>>

\* a loop that returns after its first step
RunLoop_returns_after_one_step ==
    /\ Alive /\ running /\ accumulated_instructions < MaxInstructions
    /\ DoStep
    /\ running' = FALSE
    /\ UNCHANGED <<address_traps, opcode_traps, overflow_checks, calls>>

RunLoop ==
    /\ Alive /\ running /\ accumulated_instructions < MaxInstructions
    /\ DoStep
    /\ running' = (result' = "Ok" /\ ~last'.is_break)
    /\ UNCHANGED <<address_traps, opcode_traps, overflow_checks, calls>>

Step ==
    /\ Alive /\ ~running /\ Len(calls) < MaxCalls
    /\ accumulated_instructions < MaxInstructions
    /\ DoStep
    /\ calls' = Append(calls, [op |-> "step"])
    /\ UNCHANGED <<address_traps, opcode_traps, overflow_checks, running>>

Next ==
    \/ Reset
    \/ \E p \in Programs, ro \in BOOLEAN : LoadProgram(p, ro)
    \/ \E a \in SetAddresses, v \in SetValues : SetByteAt(a, v)
    \/ \E a \in StartAddresses : SetPc(a)
    \/ \E s \in {Some(a) : a \in StartAddresses} \cup {None} : Run(s)
    \/ RunLoop
    \/ Step

Spec == Init /\ [][Next]_vars

----------------------------------------------------------------------------
(* Instruction-level scenarios: one instruction placed in memory, the CPU  *)
(* drawn from bounded sets, then stepped, as the unit tests of engine/ops  *)
(* do.                                                                     *)

\* place the bytes of program at consecutive addresses from start
RECURSIVE Place(_, _, _)
Place(mem, start, program) ==
    IF program = << >> THEN mem
    ELSE Place(Store(mem, start % 65536, Head(program)), start + 1, Tail(program))

Fresh ==
    /\ ranges = << >>
    /\ address_traps = << >>
    /\ opcode_traps = <<BrkTrap>>
    /\ accumulated_cycles = 0
    /\ accumulated_instructions = 0
    /\ overflow_checks \in BOOLEAN
    /\ running = FALSE
    /\ result = "Ok"
    /\ calls = << >>
    /\ frames = << >>
    /\ last = NoStep

StepWithin(n) ==
    /\ Alive /\ ~running /\ Len(calls) < n /\ ~last.is_break
    /\ DoStep
    /\ calls' = Append(calls, [op |-> "step"])
    /\ UNCHANGED <<address_traps, opcode_traps, overflow_checks, running>>

\* ADC #, SBC #, CMP #, CPX #, CPY # at 0x0200, operand at 0x0201
AluOpcodes == {105, 233, 201, 224, 192}
OperandValues == {0, 1, 2, 9, 14, 42, 63, 64, 126, 127, 128, 129, 150, 192, 211, 222, 254, 255}
AluStatusValues == {0, 1, 214, 215}
\* values of the registers an instruction is not about: A, X, Y
Other == [accumulator |-> 51, index_x |-> 85, index_y |-> 170]

\* status bytes with the D flag set, for ADC and SBC
DecimalStatusValues == {8, 9, 203}

InitAlu ==
    /\ \E op \in AluOpcodes, r \in Byte, m \in OperandValues :
          /\ memory = Place(<< >>, 512, <<op, m>>)
          /\ accumulator = (IF op \in {105, 233, 201} THEN r ELSE Other.accumulator)
          /\ index_x = (IF op = 224 THEN r ELSE Other.index_x)
          /\ index_y = (IF op = 192 THEN r ELSE Other.index_y)
          /\ status \in AluStatusValues
                        \cup (IF op \in {105, 233} /\ r \in {0, 80, 153}
                              THEN DecimalStatusValues ELSE {})
    /\ sp = 255
    /\ pc = 512
    /\ Fresh

AluSteps == 1

StepAlu == StepWithin(AluSteps)

NextAlu == StepAlu

SpecAlu == InitAlu /\ [][NextAlu]_vars

\* branches, BRK and JSR/RTS: branch_jump.rs and interrupt.rs
BranchOpcodes == {144, 176, 240, 48, 208, 16, 80, 112}
JumpAddresses == {0, 290, 65533, 65534}
JumpStatusValues == {0, 195, 65, 130}
SpValues == {255, 128, 3, 2, 1, 0}
\* where the called subroutine and the one it calls are placed
SubroutineAddress == 3 * 256
InnerAddress == SubroutineAddress + 16
\* RTS; PHA PLA RTS; PHP PLP RTS; JSR inner, RTS
SubroutineBodies ==
    {<<96>>, <<72, 104, 96>>, <<8, 40, 96>>, <<32, InnerAddress % 256, InnerAddress \div 256, 96>>}

InitBranch ==
    /\ \E op \in BranchOpcodes, o \in Byte, a \in JumpAddresses :
          /\ memory = Place(<< >>, a, <<op, o>>)
          /\ pc = a
    /\ status \in JumpStatusValues
    /\ sp = 255

InitBrk ==
    /\ \E a \in JumpAddresses :
          /\ memory = Place(<< >>, a, <<0>>)
          /\ pc = a
    /\ status \in Byte
    /\ sp \in SpValues

InitJsr ==
    /\ \E a \in JumpAddresses, body \in SubroutineBodies :
          /\ memory = Place(Place(Place(<< >>, InnerAddress, <<96>>),
                                  SubroutineAddress, body),
                            a, <<32, SubroutineAddress % 256, SubroutineAddress \div 256>>)
          /\ pc = a
    /\ status \in JumpStatusValues
    /\ sp \in SpValues

InitJump ==
    /\ InitBranch \/ InitBrk \/ InitJsr
    /\ accumulator = 66
    /\ index_x = Other.index_x
    /\ index_y = Other.index_y
    /\ Fresh

StepJump == StepWithin(MaxSteps)

NextJump == StepJump

SpecJump == InitJump /\ [][NextJump]_vars

----------------------------------------------------------------------------
(* Interrupt scenarios: RTI over a prepared stack, and BRK with an RTI in  *)
(* the byte after it, single-stepped past the BRK stop as a debugger does. *)
(* calls holds, for each step, the registers before it and what it ran.    *)

\* RTI at a with the byte s and the word w on the stack
InitRti ==
    /\ \E a \in {290, 65533}, s \in {0, 48, 219, 255}, w \in {4660, 65535}, p \in {252, 125, 0} :
          /\ memory = Place(Place(<< >>, a, <<64>>),
                            256 + p + 1, <<s, w % 256, w \div 256>>)
          /\ pc = a
          /\ sp = p
    /\ status \in {0, 255}

\* RTI on a stack that holds fewer than three bytes
InitRtiEmpty ==
    /\ memory = Place(Place(<< >>, 290, <<64>>), 510, <<219, 52>>)
    /\ pc = 290
    /\ sp \in {253, 254, 255}
    /\ status \in {0, 255}

\* BRK at a, RTI at a + 1
InitBrkRti ==
    /\ \E a \in JumpAddresses :
          /\ memory = Place(<< >>, a, <<0, 64>>)
          /\ pc = a
    /\ status \in Byte
    /\ sp \in SpValues

InitInterrupt ==
    /\ InitRti \/ InitRtiEmpty \/ InitBrkRti
    /\ accumulator = 66
    /\ index_x = Other.index_x
    /\ index_y = Other.index_y
    /\ Fresh

\* CpuImpl::step called whatever the step before returned
StepOn ==
    /\ Alive /\ ~running /\ Len(calls) < MaxSteps
    /\ DoStep
    /\ calls' = Append(calls, [op |-> "step", address |-> pc, status |-> status,
                               sp |-> sp, opcode |-> last'.decoded.opcode,
                               counted |-> last'.counted])
    /\ UNCHANGED <<address_traps, opcode_traps, overflow_checks, running>>

NextInterrupt == StepOn

SpecInterrupt == InitInterrupt /\ [][NextInterrupt]_vars

----------------------------------------------------------------------------
(* Addressing scenarios: an instruction whose operand is a pointer or a    *)
(* store target, over a memory with distinct bytes at the places the       *)
(* resolver may read.                                                      *)

\* bytes at the pointers of IndirectPointers, at the addresses after them and
\* at the start of their pages
PointerMemory ==
    Place(Place(Place(Place(Place(Place(Place(Place(<< >>,
        0, <<101>>), 255, <<135, 169>>), 512, <<18, 86>>), 767, <<52>>),
        4096, <<154>>), 4351, <<188, 222>>), 4660, <<17, 34>>), 65280, <<33>>)

IndirectPointers == {255, 512, 767, 4351, 4660, 65535}

\* JMP (p) at a, as in tests::get_effective_address_indirect_6502bug
InitJmpIndirect ==
    /\ \E a \in {768, 1024}, p \in IndirectPointers :
          /\ memory = Place(Place(PointerMemory, 65535, <<67>>),
                            a, <<108, p % 256, p \div 256>>)
          /\ pc = a
    /\ accumulator = Other.accumulator
    /\ index_x = Other.index_x
    /\ index_y = Other.index_y
    /\ status \in JumpStatusValues
    /\ sp = 255
    /\ ranges = << >>

\* LDA (o,X) and LDA (o),Y with the zero-page pointer at 0x40 or at 0xFF;
\* the bytes at the addresses the pointers may give are all different
InitZeroPagePointer ==
    /\ \E op \in {161, 177}, o \in {64, 240, 255} :
          /\ memory = Place(Place(Place(Place(Place(PointerMemory,
                                64, <<0, 32>>), 8192, <<85, 86>>),
                                25991, <<119, 120>>), 43399, <<153, 154>>),
                            1024, <<op, o>>)
          /\ pc = 1024
    /\ accumulator = Other.accumulator
    /\ index_x \in {0, 15, 80}
    /\ index_y \in {0, 1}
    /\ status \in {0, 195}
    /\ sp = 255
    /\ ranges = << >>

\* STA, STX, STY absolute at 0x0400 onto 0x1005 (read-only) or 0x1020; NOP, BRK follow
InitStore ==
    /\ \E op \in {141, 142, 140}, target \in {4101, 4128} :
          memory = Place(Place(<< >>, 4096, <<1, 2, 3, 4, 5, 6, 7, 8>>),
                         1024, <<op, target % 256, target \div 256, 234, 0>>)
    /\ pc = 1024
    /\ accumulator \in {0, Other.accumulator}
    /\ index_x = Other.index_x
    /\ index_y = Other.index_y
    /\ status \in {0, 130}
    /\ sp = 255
    /\ ranges = <<<<4096, 4112>>>>

\* a byte that is no 6502 opcode at 0x0400; LDA #1, NOP, BRK follow
InitIllegal ==
    /\ \E b \in {2, 128, 250, 255} :
          memory = Place(<< >>, 1024, <<b, 169, 1, 234, 0>>)
    /\ pc = 1024
    /\ accumulator = Other.accumulator
    /\ index_x = Other.index_x
    /\ index_y = Other.index_y
    /\ status \in {0, 195}
    /\ sp \in {255, 1}
    /\ ranges = << >>

InitAddr ==
    /\ InitJmpIndirect \/ InitZeroPagePointer \/ InitStore \/ InitIllegal
    /\ address_traps = << >>
    /\ opcode_traps = <<BrkTrap>>
    /\ accumulated_cycles = 0
    /\ accumulated_instructions = 0
    /\ overflow_checks \in BOOLEAN
    /\ running = FALSE
    /\ result = "Ok"
    /\ calls = << >>
    /\ frames = << >>
    /\ last = NoStep

StepAddr == StepWithin(MaxSteps)

NextAddr == StepAddr

SpecAddr == InitAddr /\ [][NextAddr]_vars

----------------------------------------------------------------------------
(* Stack scenarios: calls of StackPointerImpl on the page-1 stack. frames  *)
(* holds the pushes not yet popped, <<operation, value, sp before>>, and   *)
(* last the latest call.                                                   *)

MaxStackOps == 4

PushedBytes == {0, 90}
PushedWords == {4660, 43981, 65280}

NoCall ==
    [op |-> "none", value |-> 0, returned |-> 0, before |-> Cpu, frames |-> << >>]

InitStack ==
    /\ accumulator = 0
    /\ index_x = 0
    /\ index_y = 0
    /\ status = 0
    /\ sp \in SpValues \cup {254}
    /\ pc = 0
    /\ memory \in {<< >>, Place(<< >>, 256, <<225, 226>>), Place(<< >>, 510, <<238, 239>>)}
    /\ ranges = << >>
    /\ address_traps = << >>
    /\ opcode_traps = <<BrkTrap>>
    /\ accumulated_cycles = 0
    /\ accumulated_instructions = 0
    /\ overflow_checks = TRUE
    /\ running = FALSE
    /\ result = "Ok"
    /\ calls = << >>
    /\ frames = << >>
    /\ last = NoCall

\* a call of operation op that leaves the CPU as c and returns `returned`
StackCall(op, value, c, returned) ==
    /\ Len(calls) < MaxStackOps
    /\ Apply(c)
    /\ result' = c.err
    /\ frames' = IF c.err # "Ok" THEN frames
                  ELSE IF op \in {"push_byte", "push_word"}
                  THEN Append(frames, <<op, value, sp>>)
                  ELSE SubSeq(frames, 1, Len(frames) - 1)
    /\ last' = [op |-> op, value |-> value, returned |-> returned,
                before |-> Cpu, frames |-> frames]
    /\ calls' = Append(calls, [op |-> op])
    /\ UNCHANGED <<address_traps, opcode_traps, accumulated_cycles,
                   accumulated_instructions, overflow_checks, running>>

\* the push that a pop now would match
TopPush == IF frames = << >> THEN "none" ELSE frames[Len(frames)][1]

PushByte(v) == StackCall("push_byte", v, push_byte(Cpu, v), 0)

PushWord(w) == StackCall("push_word", w, push_word(Cpu, w), 0)

\* a pop is made when it matches the latest open push, or when it fails
PopResult(op, p) ==
    /\ TopPush = (IF op = "pop_byte" THEN "push_byte" ELSE "push_word") \/ p.c.err # "Ok"
    /\ StackCall(op, 0, p.c, p.v)

PopByte == PopResult("pop_byte", pop_byte(Cpu))

PopWord == PopResult("pop_word", pop_word(Cpu))

NextStack ==
    \/ \E v \in PushedBytes : PushByte(v)
    \/ \E w \in PushedWords : PushWord(w)
    \/ PopByte
    \/ PopWord

SpecStack == InitStack /\ [][NextStack]_vars

----------------------------------------------------------------------------
(* Memory scenarios: calls of write (set_byte_at), load_program,           *)
(* add_readonly and clear_readonly_ranges. last holds the latest call and  *)
(* the CPU before it, calls the operations so far and whether each was Ok. *)

MaxMemOps == 4

\* MemoryImpl::add_readonly
add_readonly(c, lo, hi) ==
    IF c.err # "Ok" THEN c ELSE [c EXCEPT !.ranges = Append(c.ranges, <<lo, hi>>)]

\* MemoryImpl::clear_readonly_ranges
clear_readonly_ranges(c) ==
    IF c.err # "Ok" THEN c ELSE [c EXCEPT !.ranges = << >>]

MemAddresses == {15, 4101, 65535}
MemValues == {0, 170}
RomProgram ==
    [start |-> 4096, bytes |-> <<1, 2, 3, 4, 5, 6, 7, 8, 9, 10, 11, 12, 13, 14, 15, 16>>]
TopProgram == [start |-> 65533, bytes |-> <<76, 0, 6>>]
MemPrograms == {RomProgram, TopProgram}
MemRanges == {<<0, 16>>}

NoMemCall ==
    [op |-> "none", address |-> 0, value |-> 0, bytes |-> << >>, readonly |-> FALSE,
     before |-> Cpu]

InitMem ==
    /\ accumulator = 0
    /\ index_x = 0
    /\ index_y = 0
    /\ status = 0
    /\ sp = 255
    /\ pc = 0
    /\ memory = << >>
    /\ ranges = << >>
    /\ address_traps = << >>
    /\ opcode_traps = <<BrkTrap>>
    /\ accumulated_cycles = 0
    /\ accumulated_instructions = 0
    /\ overflow_checks \in BOOLEAN
    /\ running = FALSE
    /\ result = "Ok"
    /\ calls = << >>
    /\ frames = << >>
    /\ last = NoMemCall

\* a call described by `call` that leaves the CPU as c
MemCall(call, c) ==
    /\ Alive /\ Len(calls) < MaxMemOps
    /\ Apply(c)
    /\ result' = c.err
    /\ last' = [call EXCEPT !.before = Cpu]
    /\ calls' = Append(calls, [op |-> call.op, ok |-> c.err = "Ok"])
    /\ UNCHANGED <<address_traps, opcode_traps, accumulated_cycles,
                   accumulated_instructions, overflow_checks, running, frames>>

MemWrite(address, value) ==
    MemCall([NoMemCall EXCEPT !.op = "write", !.address = address, !.value = value],
            write(Cpu, address, value))

MemLoadProgram(p, is_readonly) ==
    MemCall([NoMemCall EXCEPT !.op = "load_program", !.address = p.start,
                              !.bytes = p.bytes, !.readonly = is_readonly],
            load_program(Cpu, p.start, p.bytes, is_readonly))

MemAddReadonly(r) ==
    MemCall([NoMemCall EXCEPT !.op = "add_readonly", !.address = r[1], !.value = r[2]],
            add_readonly(Cpu, r[1], r[2]))

MemClearReadonly ==
    MemCall([NoMemCall EXCEPT !.op = "clear_readonly_ranges"], clear_readonly_ranges(Cpu))

NextMem ==
    \/ \E a \in MemAddresses, v \in MemValues : MemWrite(a, v)
    \/ \E p \in MemPrograms, ro \in BOOLEAN : MemLoadProgram(p, ro)
    \/ \E r \in MemRanges : MemAddReadonly(r)
    \/ MemClearReadonly

SpecMem == InitMem /\ [][NextMem]_vars

----------------------------------------------------------------------------
(* Trap scenarios: LDA #1, NOP, BRK at 0x0400, stepped after address and   *)
(* opcode traps were added.                                                *)

MaxTraps == 2

TrapAddresses == {1024, 1026, 1027}
TrapOpcodes == {169, 234}
TrapOutcomeStatus == {"Continue", "Handled", "Stop", "StopAfter"}

InitTrap ==
    /\ memory = Place(<< >>, 1024, <<169, 1, 234, 0>>)
    /\ pc = 1024
    /\ accumulator = 0
    /\ index_x = 0
    /\ index_y = 0
    /\ status = 0
    /\ sp = 255
    /\ Fresh

\* TrapDoor::add_addr_trap
AddAddrTrap(address, requested_outcome) ==
    /\ Alive /\ calls = << >> /\ Len(address_traps) + Len(opcode_traps) <= MaxTraps
    /\ address_traps' = Append(address_traps, [address |-> address,
                                                requested_outcome |-> requested_outcome])
    /\ UNCHANGED <<accumulator, index_x, index_y, status, sp, pc, memory, ranges,
                   opcode_traps, accumulated_cycles, accumulated_instructions,
                   overflow_checks, running, result, calls, frames, last>>

\* TrapDoor::add_opcode_trap
AddOpcodeTrap(opcode, requested_outcome) ==
    /\ Alive /\ calls = << >> /\ Len(address_traps) + Len(opcode_traps) <= MaxTraps
    /\ opcode_traps' = Append(opcode_traps, [opcode |-> opcode,
                                              requested_outcome |-> requested_outcome])
    /\ UNCHANGED <<accumulator, index_x, index_y, status, sp, pc, memory, ranges,
                   address_traps, accumulated_cycles, accumulated_instructions,
                   overflow_checks, running, result, calls, frames, last>>

StepTrap == StepWithin(MaxSteps)

NextTrap ==
    \/ \E a \in TrapAddresses, o \in TrapOutcomeStatus : AddAddrTrap(a, o)
    \/ \E b \in TrapOpcodes, o \in {"Stop", "Continue"} : AddOpcodeTrap(b, o)
    \/ StepTrap

SpecTrap == InitTrap /\ [][NextTrap]_vars

----------------------------------------------------------------------------
(* Status register scenarios: update_from called on any status byte with   *)
(* any register value. last holds the call and the CPU before it.          *)

MaxStatusOps == 1

NoStatusCall == [op |-> "none", value |-> 0, before |-> Cpu]

InitStatus ==
    /\ accumulator = 0
    /\ index_x = 0
    /\ index_y = 0
    /\ status \in Byte
    /\ sp = 255
    /\ pc = 0
    /\ memory = << >>
    /\ ranges = << >>
    /\ address_traps = << >>
    /\ opcode_traps = <<BrkTrap>>
    /\ accumulated_cycles = 0
    /\ accumulated_instructions = 0
    /\ overflow_checks = TRUE
    /\ running = FALSE
    /\ result = "Ok"
    /\ calls = << >>
    /\ frames = << >>
    /\ last = NoStatusCall

\* StatusRegister::update_from(value)
UpdateFrom(value) ==
    /\ Len(calls) < MaxStatusOps
    /\ status' = update_from(status, value)
    /\ last' = [op |-> "update_from", value |-> value, before |-> Cpu]
    /\ calls' = Append(calls, [op |-> "update_from"])
    /\ UNCHANGED <<accumulator, index_x, index_y, sp, pc, memory, ranges,
                   address_traps, opcode_traps, accumulated_cycles,
                   accumulated_instructions, overflow_checks, running, result, frames>>

NextStatus == \E b \in Byte : UpdateFrom(b)

SpecStatus == InitStatus /\ [][NextStatus]_vars

----------------------------------------------------------------------------
(* Disassembler scenarios: the program of tests::disassemble_legal_opcode  *)
(* and branches at the ends of the address space, disassembled line by     *)
(* line. last holds the call, its line and the CPU before it.              *)

MaxLines == 2

DisassemblyProgram ==
    [start |-> 1536, bytes |-> <<169, 66, 133, 15, 48, 4, 240, 250, 76, 0, 6, 234, 0>>]

BranchOffsets == {0, 4, 127, 128, 250, 255}
BranchAddresses == {0, 254, 65533, 65534, 65535}
LineAddresses == {1536, 1538, 1540, 1542, 1544, 1547, 1548} \cup BranchAddresses

NoLine == [op |-> "none", address |-> 0, line |-> "", next |-> 0, before |-> Cpu]

InitDisassemble ==
    /\ \/ memory = Place(<< >>, DisassemblyProgram.start, DisassemblyProgram.bytes)
       \/ \E a \in BranchAddresses, op \in {208, 48}, nn \in BranchOffsets :
             memory = Place(<< >>, a, <<op, nn>>)
    /\ accumulator = 0
    /\ index_x = 0
    /\ index_y = 0
    /\ status = 0
    /\ sp = 255
    /\ pc = 0
    /\ ranges = << >>
    /\ address_traps = << >>
    /\ opcode_traps = <<BrkTrap>>
    /\ accumulated_cycles = 0
    /\ accumulated_instructions = 0
    /\ overflow_checks \in BOOLEAN
    /\ running = FALSE
    /\ result = "Ok"
    /\ calls = << >>
    /\ frames = << >>
    /\ last = NoLine

\* disassemble(cpu, address), given what it returns
Disassembled(address, d) ==
    /\ Alive /\ Len(calls) < MaxLines
    /\ result' = d.c.err
    /\ last' = [op |-> "disassemble", address |-> address, line |-> d.line,
                next |-> d.next, before |-> Cpu]
    /\ calls' = Append(calls, [op |-> "disassemble"])
    /\ UNCHANGED <<accumulator, index_x, index_y, status, sp, pc, memory, ranges,
                   address_traps, opcode_traps, accumulated_cycles,
                   accumulated_instructions, overflow_checks, running, frames>>

Disassemble(address) == Disassembled(address, disassemble(Cpu, address))

NextDisassemble == \E a \in LineAddresses : Disassemble(a)

SpecDisassemble == InitDisassemble /\ [][NextDisassemble]_vars

----------------------------------------------------------------------------
(* Euclid scenario: the program of tests/euclid_tests.rs loaded at 0x0600, *)
(* VAR_A and VAR_B set with set_byte_at, then run(Some(0x0600)).           *)

MaxGcdInstructions == 800

EuclidProgram ==
    [start |-> 1536,
     bytes |-> <<165, 64, 56, 229, 65, 240, 18, 48, 5, 133, 64, 76, 2, 6,
                 166, 64, 164, 65, 134, 65, 132, 64, 76, 0, 6, 165, 64, 0>>]

GcdOperands == {1, 49, 56, 127}
GcdPairs ==
    {<<a, b>> \in (1..127) \X (1..127) : a \in GcdOperands \/ b \in GcdOperands}

InitEuclid ==
    /\ \E ab \in GcdPairs :
          /\ memory = Place(Place(<< >>, EuclidProgram.start, EuclidProgram.bytes),
                            64, <<ab[1], ab[2]>>)
          /\ calls = <<[op |-> "set_byte_at", address |-> 64, value |-> ab[1]],
                       [op |-> "set_byte_at", address |-> 65, value |-> ab[2]]>>
    /\ accumulator = 0
    /\ index_x = 0
    /\ index_y = 0
    /\ status = 0
    /\ sp = 255
    /\ pc = 0
    /\ ranges = << >>
    /\ address_traps = << >>
    /\ opcode_traps = <<BrkTrap>>
    /\ accumulated_cycles = 0
    /\ accumulated_instructions = 0
    /\ overflow_checks \in BOOLEAN
    /\ running = FALSE
    /\ result = "Ok"
    /\ frames = << >>
    /\ last = NoStep

\* the loop of CpuImpl::run, one step at a time
RunEuclid ==
    /\ Alive /\ running /\ accumulated_instructions < MaxGcdInstructions
    /\ DoStep
    /\ running' = (result' = "Ok" /\ ~last'.is_break)
    /\ UNCHANGED <<address_traps, opcode_traps, overflow_checks, calls>>

NextEuclid ==
    \/ Run(Some(EuclidProgram.start))
    \/ RunEuclid

SpecEuclid == InitEuclid /\ [][NextEuclid]_vars

----------------------------------------------------------------------------
(* Stack-instruction scenarios: two of PHA, PHP, PLA, PLP, TXS, TSX, RTS,  *)
(* RTI, BRK and JSR at 0x0600 over a filled stack page, reached by step,   *)
(* run and reset.                                                          *)

\* PHA, PHP, PLA, PLP, TXS, TSX, RTS, RTI, BRK, JSR
StackOpcodes == {72, 8, 104, 40, 154, 186, 96, 64, 0, 32}
StackProgramStart == 6 * 256

\* first, then second; a JSR calls the byte that follows its operand
StackProgram(first, second) ==
    LET tail == IF second = 32
                THEN <<32, StackProgramStart % 256, StackProgramStart \div 256>>
                ELSE <<second>>
    IN IF first = 32
       THEN <<32, (StackProgramStart + 3) % 256, StackProgramStart \div 256>> \o tail
       ELSE <<first>> \o tail

\* page 0x01 holding the byte f everywhere
StackPage(f) == [a \in (IF f = 0 THEN {} ELSE 256..511) |-> f]

InitStackOps ==
    /\ \E first \in StackOpcodes, second \in StackOpcodes :
          memory = Place(StackPage(255), StackProgramStart, StackProgram(first, second))
    /\ pc = StackProgramStart
    /\ accumulator = 255
    /\ index_x \in {0, 165}
    /\ index_y = Other.index_y
    /\ status \in {0, 207, 81}
    /\ sp \in {255, 128, 1, 0}
    /\ Fresh

MaxStackInstructions == 2

\* CpuImpl::step called whatever the step before returned
StepStackOps ==
    /\ Alive /\ ~running /\ Len(calls) < MaxStackInstructions
    /\ DoStep
    /\ calls' = Append(calls, [op |-> "step", address |-> pc, status |-> status,
                               sp |-> sp, opcode |-> last'.decoded.opcode,
                               counted |-> last'.counted])
    /\ UNCHANGED <<address_traps, opcode_traps, overflow_checks, running>>

NextStackOps ==
    \/ StepStackOps
    \/ Reset
    \/ Run(Some(StackProgramStart))
    \/ RunLoop

SpecStackOps == InitStackOps /\ [][NextStackOps]_vars

----------------------------------------------------------------------------
(* Read-modify-write scenarios: one shift, rotate, INC or DEC at 0x0200 on *)
(* the accumulator, on zero-page 0x10 or on the absolute address 0x0310.   *)

\* ASL, LSR, ROL, ROR with Accumulator, ZeroPage and Absolute operands,
\* INC and DEC with ZeroPage and Absolute operands
RmwOpcodes == {10, 6, 14, 74, 70, 78, 42, 38, 46, 106, 102, 110, 230, 238, 198, 206}
RmwStatusValues == {0, 1, 222, 223}
RmwOperandBytes == <<16, 3>>

\* the address an instruction at 0x0200 with the operand bytes above resolves to
RmwAddress(mode) ==
    IF mode = "ZeroPage" THEN RmwOperandBytes[1]
    ELSE RmwOperandBytes[2] * 256 + RmwOperandBytes[1]

InitRmw ==
    /\ \E op \in RmwOpcodes, v \in Byte :
          /\ memory = Place(IF decode(op).mode = "Accumulator" THEN << >>
                            ELSE Store(<< >>, RmwAddress(decode(op).mode), v),
                            512, <<op>> \o RmwOperandBytes)
          /\ accumulator = (IF decode(op).mode = "Accumulator" THEN v
                            ELSE Other.accumulator)
    /\ index_x = Other.index_x
    /\ index_y = Other.index_y
    /\ status \in RmwStatusValues
    /\ sp = 255
    /\ pc = 512
    /\ Fresh

StepRmw == StepWithin(AluSteps)

NextRmw == StepRmw

SpecRmw == InitRmw /\ [][NextRmw]_vars

----------------------------------------------------------------------------
(* Resolver scenarios: one call of get_effective_address or                *)
(* get_effective_operand with any addressing mode, PC at the operand       *)
(* bytes, as the unit tests of cpu_impl.rs do. last holds the call.        *)

MaxResolves == 1

AddressingModes ==
    {"Implied", "Accumulator", "Immediate", "ZeroPage", "ZeroPageX", "ZeroPageY",
     "Relative", "Absolute", "AbsoluteX", "AbsoluteY", "Indirect",
     "IndexedXIndirect", "IndirectIndexedY"}

\* the operand bytes at PC, low byte first
ResolveOperands == {<<16, 2>>, <<255, 255>>, <<0, 255>>, <<240, 18>>}
\* the word in the zero page at the first operand byte
ResolvePointers == {4660, 65535, 65281}
ResolveIndexes == {0, 1, 255}
ResolveAddresses == {768, 65534}

NoResolve == [op |-> "none", mode |-> "Implied", returned |-> 0, before |-> Cpu]

InitResolve ==
    /\ \E a \in ResolveAddresses, o \in ResolveOperands, p \in ResolvePointers :
          /\ memory = Place(Place(<< >>, o[1], <<p % 256, p \div 256>>), a, o)
          /\ pc = a
    /\ accumulator = Other.accumulator
    /\ index_x \in ResolveIndexes
    /\ index_y \in ResolveIndexes
    /\ status = 0
    /\ sp = 255
    /\ ranges = << >>
    /\ address_traps = << >>
    /\ opcode_traps = <<BrkTrap>>
    /\ accumulated_cycles = 0
    /\ accumulated_instructions = 0
    /\ overflow_checks \in BOOLEAN
    /\ running = FALSE
    /\ result = "Ok"
    /\ calls = << >>
    /\ frames = << >>
    /\ last = NoResolve

\* a call of resolver op with mode that gave r
Resolved(op, mode, r) ==
    /\ Len(calls) < MaxResolves
    /\ Apply(r.c)
    /\ result' = r.c.err
    /\ last' = [op |-> op, mode |-> mode, returned |-> r.v, before |-> Cpu]
    /\ calls' = Append(calls, [op |-> op])
    /\ UNCHANGED <<address_traps, opcode_traps, accumulated_cycles,
                   accumulated_instructions, overflow_checks, running, frames>>

GetEffectiveAddress(mode) ==
    Resolved("get_effective_address", mode, get_effective_address(mode, Cpu))

GetEffectiveOperand(mode) ==
    Resolved("get_effective_operand", mode, get_effective_operand(mode, Cpu))

NextResolve ==
    \/ \E mode \in AddressingModes : GetEffectiveAddress(mode)
    \/ \E mode \in AddressingModes : GetEffectiveOperand(mode)

SpecResolve == InitResolve /\ [][NextResolve]_vars

----------------------------------------------------------------------------
(* Properties *)

\* the last step executed instruction mn to completion
Executed(mn) == last.counted /\ last.decoded.opcode = mn

\* the byte following the opcode of the last step
OperandByte == read(last.before.memory, (last.address + 1) % 65536)

\* the 16-bit operand following the opcode of the last step
OperandWord ==
    read(last.before.memory, (last.address + 2) % 65536) * 256 + OperandByte

CarryIn == IF Flag(last.before.status, CarryMask) THEN 1 ELSE 0

RegistersUnchanged ==
    /\ accumulator = last.before.accumulator
    /\ index_x = last.before.index_x
    /\ index_y = last.before.index_y

\* the little-endian word on the stack at the two bytes just above stack pointer s
StackWord(mem, s) == read(mem, 256 + s + 2) * 256 + read(mem, 256 + s + 1)

LastCall == calls[Len(calls)]

Returned == ~running /\ result = "Ok"

LoadSimple ==
    [op |-> "load_program", start |-> SimpleProgram.start,
     bytes |-> SimpleProgram.bytes, readonly |-> FALSE]

\* C1: on a freshly created CPU, load_program(0x0600, A9 42 85 0F 00) and
\* run(Some(0x0600)) return with A = 0x42, memory[0x000F] = 0x42, PC = 0xFFFE,
\* 3 instructions and 12 cycles accumulated
C1_RunSimpleProgram ==
    (/\ Returned
     /\ calls \in {<<LoadSimple, [op |-> "run", start_addr |-> Some(1536)]>>,
                   <<[op |-> "reset"], LoadSimple, [op |-> "run", start_addr |-> Some(1536)]>>})
    => /\ accumulator = 66
       /\ read(memory, 15) = 66
       /\ pc = SystemVectorIRQ
       /\ accumulated_instructions = 3
       /\ accumulated_cycles = 12

\* C2: after reset() in any reachable state A = X = Y = 0, SP = 0xFF,
\* PC = 0xFFFC, both counters are 0 and the status byte is exactly 0x02
C2_ResetState ==
    (calls # << >> /\ LastCall.op = "reset")
    => /\ accumulator = 0 /\ index_x = 0 /\ index_y = 0
       /\ sp = 255
       /\ pc = SystemVectorReset
       /\ accumulated_instructions = 0
       /\ accumulated_cycles = 0
       /\ status = ZeroMask

\* C3: on a freshly created CPU with all-zero memory run(None) starts at 0xFFFC,
\* executes exactly one instruction (BRK) and returns with PC = 0xFFFE,
\* 1 instruction and 7 cycles accumulated
C3_RunEmptyMemory ==
    (/\ Returned
     /\ calls \in {<<[op |-> "run", start_addr |-> None]>>,
                   <<[op |-> "reset"], [op |-> "run", start_addr |-> None]>>})
    => /\ last.address = SystemVectorReset
       /\ last.decoded.opcode = "BRK"
       /\ pc = SystemVectorIRQ
       /\ accumulated_instructions = 1
       /\ accumulated_cycles = 7

\* C4: BRK with its opcode at address a pushes the word a+2, then the byte
\* status | 0x10, lowers SP by 3 and leaves PC = 0xFFFE
C4_BrkPushesAndVectors ==
    Executed("BRK")
    => /\ sp = last.before.sp - 3
       /\ StackWord(memory, sp + 1) = (last.address + 2) % 65536
       /\ read(memory, 256 + sp + 1) = BitOr(last.before.status, BreakMask)
       /\ pc = SystemVectorIRQ

\* C5: with D clear SBC sets A to (A - M - (1 - C)) mod 256 and C to 1 iff
\* A - M - (1 - C) >= 0, for carry set and for carry clear
C5_SbcResult ==
    (Executed("SBC") /\ ~Flag(last.before.status, DecimalMask))
    => LET diff == last.before.accumulator - OperandByte - (1 - CarryIn)
       IN /\ accumulator = diff % 256
          /\ Flag(status, CarryMask) = (diff >= 0)

\* C6: with D clear ADC sets A to (A + M + C) mod 256, C iff the sum exceeds
\* 0xFF, V iff ((A ^ result) & (M ^ result) & 0x80) != 0, N and Z from the
\* result, and leaves X, Y, SP and the flags D, I, B unchanged
C6_AdcResult ==
    (Executed("ADC") /\ ~Flag(last.before.status, DecimalMask))
    => LET a == last.before.accumulator
           m == OperandByte
           sum == a + m + CarryIn
           res == sum % 256
       IN /\ accumulator = res
          /\ Flag(status, CarryMask) = (sum > 255)
          /\ Flag(status, OverflowMask)
                = (BitAnd(BitAnd(BitXor(a, res), BitXor(m, res)), 128) # 0)
          /\ Flag(status, NegativeMask) = (res >= 128)
          /\ Flag(status, ZeroMask) = (res = 0)
          /\ index_x = last.before.index_x
          /\ index_y = last.before.index_y
          /\ sp = last.before.sp
          /\ \A mask \in {DecimalMask, InterruptMask, BreakMask} :
                Flag(status, mask) = Flag(last.before.status, mask)

\* an ADC that produced both a carry and a signed overflow
C6_Witness ==
    /\ Executed("ADC")
    /\ Flag(status, CarryMask) /\ Flag(status, OverflowMask)
    /\ CarryIn = 1

\* C7: with D clear SBC sets V iff ((A ^ result) & (~M ^ result) & 0x80) != 0,
\* i.e. iff the signed value of A - M - (1 - C) lies outside -128..127
C7_SbcOverflow ==
    (Executed("SBC") /\ ~Flag(last.before.status, DecimalMask))
    => LET a == last.before.accumulator
           m == OperandByte
           res == accumulator
           signed(v) == IF v >= 128 THEN v - 256 ELSE v
           exact == signed(a) - signed(m) - (1 - CarryIn)
       IN /\ Flag(status, OverflowMask)
                = (BitAnd(BitAnd(BitXor(a, res), BitXor(BitNot(m), res)), 128) # 0)
          /\ (CarryIn = 1)
                => (Flag(status, OverflowMask) = (exact < -128 \/ exact > 127))

\* C8: CMP, CPX and CPY set C iff R >= M, Z iff R = M, N to bit 7 of
\* (R - M) mod 256 whatever the carry before, and leave A, X, Y, V and memory
\* unchanged
C8_Compare ==
    \A mn \in {"CMP", "CPX", "CPY"} :
        Executed(mn)
        => LET r == CASE mn = "CMP" -> last.before.accumulator
                      [] mn = "CPX" -> last.before.index_x
                      [] mn = "CPY" -> last.before.index_y
               m == OperandByte
           IN /\ Flag(status, CarryMask) = (r >= m)
              /\ Flag(status, ZeroMask) = (r = m)
              /\ Flag(status, NegativeMask) = (Bit((r - m) % 256, 7) = 1)
              /\ RegistersUnchanged
              /\ Flag(status, OverflowMask) = Flag(last.before.status, OverflowMask)
              /\ memory = last.before.memory

\* a CPX that ran with the carry clear before it and found X >= M, X # M
C8_Witness ==
    /\ Executed("CPX")
    /\ CarryIn = 0
    /\ last.before.index_x > OperandByte
    /\ Flag(status, CarryMask) /\ ~Flag(status, ZeroMask)

BranchCondition(mn, st) ==
    CASE mn = "BCC" -> ~Flag(st, CarryMask)
      [] mn = "BCS" -> Flag(st, CarryMask)
      [] mn = "BEQ" -> Flag(st, ZeroMask)
      [] mn = "BNE" -> ~Flag(st, ZeroMask)
      [] mn = "BMI" -> Flag(st, NegativeMask)
      [] mn = "BPL" -> ~Flag(st, NegativeMask)
      [] mn = "BVC" -> ~Flag(st, OverflowMask)
      [] mn = "BVS" -> Flag(st, OverflowMask)

BranchMnemonics == {"BCC", "BCS", "BEQ", "BNE", "BMI", "BPL", "BVC", "BVS"}

C10_JsrRts ==
    /\ (Executed("JSR") /\ last.before.sp >= 2)
       => /\ StackWord(memory, sp) = (last.address + 2) % 65536
          /\ sp = last.before.sp - 2
          /\ pc = OperandWord
    /\ (/\ Executed("RTS")
        /\ last.frames # << >>
        /\ last.before.sp = last.frames[Len(last.frames)][2] - 2)
       => /\ pc = (last.frames[Len(last.frames)][1] + 3) % 65536
          /\ sp = last.frames[Len(last.frames)][2]

\* an RTS returned from a subroutine that pushed and pulled in between
C10_Witness ==
    /\ Executed("RTS")
    /\ Len(calls) = 4
    /\ last.frames = <<<<290, 255>>>>
    /\ pc = 293 /\ sp = 255

\* C11: JMP Indirect with operand p sets PC to (memory[h] << 8) | memory[p],
\* where h = p & 0xFF00 when the low byte of p is 0xFF and h = p + 1 otherwise
C11_JmpIndirect ==
    (Executed("JMP") /\ last.decoded.mode = "Indirect")
    => LET p == OperandWord
           h == IF p % 256 = 255 THEN (p \div 256) * 256 ELSE p + 1
       IN pc = read(last.before.memory, h) * 256 + read(last.before.memory, p)

\* 6C FF 02 at 0x0300 with 0x34 at 0x02FF and 0x12 at 0x0200 jumped to 0x1234
C11_Witness ==
    /\ Executed("JMP")
    /\ last.address = 768
    /\ OperandWord = 767
    /\ read(last.before.memory, 767) = 52
    /\ read(last.before.memory, 512) = 18
    /\ pc = 4660

\* C12: read_zero_page_word(B) is (memory[(B + 1) mod 256] << 8) | memory[B],
\* so for B = 0xFF the high byte comes from 0x0000, and IndexedXIndirect and
\* IndirectIndexedY read their pointer this way
C12_ZeroPageWordWraps ==
    /\ (Executed("LDA") /\ last.decoded.mode = "IndexedXIndirect")
       => LET mem == last.before.memory
              B == (OperandByte + last.before.index_x) % 256
              word == read(mem, (B + 1) % 256) * 256 + read(mem, B)
          IN accumulator = read(mem, word)
    /\ (Executed("LDA") /\ last.decoded.mode = "IndirectIndexedY")
       => LET mem == last.before.memory
              B == OperandByte
              word == read(mem, (B + 1) % 256) * 256 + read(mem, B)
          IN accumulator = read(mem, (word + last.before.index_y) % 65536)

\* C13: in a well-balanced sequence of pushes and pops without StackOverflow
\* each pop returns the value of the matching push, last in first out, and
\* leaves SP as it was before that push
C13_StackLifo ==
    (/\ last.op \in {"pop_byte", "pop_word"}
     /\ result = "Ok"
     /\ last.frames # << >>)
    => LET top == last.frames[Len(last.frames)]
       IN /\ last.returned = top[2]
          /\ sp = top[3]
          /\ frames = << >> => sp = last.frames[1][3]

\* push_word, push_byte, pop_byte, pop_word: the word came back and the stack is empty
C13_Witness ==
    /\ last.op = "pop_word"
    /\ result = "Ok"
    /\ Len(calls) = 4
    /\ Len(last.frames) = 1
    /\ last.returned = 43981
    /\ frames = << >>

\* C14: push_byte at SP = 0x00, pop_byte at SP = 0xFF, push_word at SP <= 0x01
\* and pop_word at SP >= 0xFE return StackOverflow and leave SP and memory
\* unchanged
C14_StackOverflow ==
    (\/ last.op = "push_byte" /\ last.before.sp = 0
     \/ last.op = "pop_byte" /\ last.before.sp = 255
     \/ last.op = "push_word" /\ last.before.sp <= 1
     \/ last.op = "pop_word" /\ last.before.sp >= 254)
    => /\ result = "StackOverflow"
       /\ sp = last.before.sp
       /\ memory = last.before.memory

\* a push_word was refused with one free byte left
C14_Witness ==
    /\ last.op = "push_word"
    /\ last.before.sp = 1
    /\ result = "StackOverflow"
    /\ sp = 1

\* address a lies in one of the half-open intervals [lo, hi) of rs
InsideSome(rs, a) == \E i \in DOMAIN rs : rs[i][1] <= a /\ a < rs[i][2]

\* C15: write(a, v) to an address outside all read-only ranges succeeds, a
\* following read(a) returns v and every other address keeps its value; a read
\* of any address returns a byte
C15_WriteRead ==
    /\ (last.op = "write" /\ ~InsideSome(last.before.ranges, last.address))
       => /\ result = "Ok"
          /\ read(memory, last.address) = last.value
          /\ \A x \in ((DOMAIN memory) \cup (DOMAIN last.before.memory)) \ {last.address} :
                read(memory, x) = read(last.before.memory, x)
    /\ \A a \in MemAddresses \cup {0, 4096, 65534} :
          read_error(a) = "Ok" /\ read(memory, a) \in Byte

\* a byte with the top bit set was written over a loaded byte and read back
C15_Witness ==
    /\ last.op = "write"
    /\ last.address = 4101
    /\ last.value = 170
    /\ read(last.before.memory, 4101) = 6
    /\ result = "Ok"
    /\ read(memory, 4101) = 170
    /\ read(memory, 4100) = 5

\* the program of the latest load_program ends below the top of memory, or was
\* loaded without a read-only range
LoadedBelowTop ==
    /\ last.op = "load_program"
    /\ ~last.readonly \/ last.address + Len(last.bytes) < MemorySize

\* C16: a write (set_byte_at) to an address inside a registered read-only
\* interval [lo, hi) returns ReadOnlyMemory and leaves memory unchanged;
\* load_program over such addresses succeeds and changes the bytes; after
\* clear_readonly_ranges the write succeeds
C16_ReadOnly ==
    /\ (last.op = "write" /\ InsideSome(last.before.ranges, last.address))
       => /\ result = "ReadOnlyMemory"
          /\ memory = last.before.memory
          /\ ranges = last.before.ranges
    /\ LoadedBelowTop
       => /\ result = "Ok"
          /\ \A i \in DOMAIN last.bytes :
                read(memory, last.address + i - 1) = last.bytes[i]
    /\ (/\ last.op = "write"
        /\ Len(calls) >= 2
        /\ calls[Len(calls) - 1].op = "clear_readonly_ranges")
       => /\ result = "Ok"
          /\ read(memory, last.address) = last.value

\* load read-only at 0x1000, a refused write, clear_readonly_ranges, the write succeeds
C16_Witness ==
    /\ Len(calls) = 4
    /\ calls[1] = [op |-> "load_program", ok |-> TRUE]
    /\ calls[2] = [op |-> "write", ok |-> FALSE]
    /\ calls[3] = [op |-> "clear_readonly_ranges", ok |-> TRUE]
    /\ last.op = "write"
    /\ last.address = 4101
    /\ last.value = 170
    /\ result = "Ok"
    /\ read(memory, 4101) = 170

\* a program is loaded over its own read-only range and replaces the bytes
C16_WitnessReload ==
    /\ LoadedBelowTop
    /\ InsideSome(last.before.ranges, 4101)
    /\ read(last.before.memory, 4101) = 6
    /\ result = "Ok"

\* C17: load_program(addr, bytes, readonly = true) with addr + len <= 0x10000
\* succeeds, and afterwards set_byte_at fails with ReadOnlyMemory on each of
\* addr .. addr+len-1 and succeeds on every address outside all read-only ranges
C17_LoadReadOnly ==
    (/\ last.op = "load_program"
     /\ last.readonly
     /\ last.address + Len(last.bytes) <= MemorySize)
    => /\ result = "Ok"
       /\ \A a \in last.address .. (last.address + Len(last.bytes) - 1) :
             write(Cpu, a, 170).err = "ReadOnlyMemory"
       /\ \A a \in {15, 4095, 4112, 65532} :
             ~InsideSome(last.before.ranges, a) => write(Cpu, a, 170).err = "Ok"

\* C18: STA, STX or STY onto an address inside a read-only range completes
\* successfully, leaves the target byte as it was and does not update N and Z
C18_StoreReadOnly ==
    (/\ last.decoded.opcode \in {"STA", "STX", "STY"}
     /\ last.decoded.mode = "Absolute"
     /\ last.outcome = "Continue"
     /\ InsideSome(last.before.ranges, OperandWord))
    => /\ result = "Ok"
       /\ last.counted
       /\ ~last.is_break
       /\ read(memory, OperandWord) = read(last.before.memory, OperandWord)
       /\ Flag(status, NegativeMask) = Flag(last.before.status, NegativeMask)
       /\ Flag(status, ZeroMask) = Flag(last.before.status, ZeroMask)

\* the opcodes of the table
LegalOpcodes == {OpcodesMos6502[i][1] : i \in DOMAIN OpcodesMos6502}

C19_TrapPrecedence ==
    last.outcome # "None"
    => LET here == {i \in DOMAIN address_traps : address_traps[i].address = last.address}
           raw == read(last.before.memory, last.address)
       IN /\ here # {}
             => \E i \in here :
                   /\ \A j \in here : i <= j
                   /\ last.outcome = address_traps[i].requested_outcome
          /\ (here = {} /\ \E i \in DOMAIN opcode_traps : opcode_traps[i].opcode = raw)
             => last.outcome = "StopAfter"
          /\ (here = {} /\ \A i \in DOMAIN opcode_traps : opcode_traps[i].opcode # raw)
             => last.outcome = "Continue"

\* an address trap requesting Stop on the BRK at 0x0403 stopped the step before the BRK ran
C19_Witness ==
    /\ last.address = 1027
    /\ last.decoded.opcode = "BRK"
    /\ \E i \in DOMAIN address_traps :
          address_traps[i] = [address |-> 1027, requested_outcome |-> "Stop"]
    /\ last.outcome = "Stop"
    /\ last.is_break
    /\ ~last.counted
    /\ pc = 1028

\* two address traps on one address: the one added first decided
C19_WitnessFirst ==
    /\ last.address = 1026
    /\ Len(address_traps) = 2
    /\ address_traps[1] = [address |-> 1026, requested_outcome |-> "Continue"]
    /\ address_traps[2] = [address |-> 1026, requested_outcome |-> "Stop"]
    /\ last.outcome = "Continue"
    /\ last.counted

\* C21: BRK sets the B bit only in the status byte it pushes: the status
\* register after BRK equals the status register before it
C21_BrkStatusUnchanged ==
    Executed("BRK")
    => /\ read(memory, 256 + last.before.sp - 2) = BitOr(last.before.status, BreakMask)
       /\ status = last.before.status

C22_WitnessPop ==
    /\ Executed("RTI")
    /\ Len(calls) = 1
    /\ last.before.sp = 252
    /\ read(last.before.memory, 509) = 219
    /\ pc = 4660
    /\ status = 203
    /\ sp = 255

\* C23: ADC or SBC with the D flag set fails, leaves A and the flags C, V, N, Z
\* unchanged and is not counted in accumulated_instructions
C23_DecimalFails ==
    (/\ last.decoded.opcode \in {"ADC", "SBC"}
     /\ last.outcome \in {"Continue", "StopAfter"}
     /\ Flag(last.before.status, DecimalMask))
    => /\ result # "Ok"
       /\ ~last.counted
       /\ accumulator = last.before.accumulator
       /\ \A mask \in {CarryMask, OverflowMask, NegativeMask, ZeroMask} :
             Flag(status, mask) = Flag(last.before.status, mask)
       /\ accumulated_instructions = last.instructions
       /\ accumulated_cycles = last.cycles

\* SBC #m with D set and A = 0x50 failed and left A alone
C23_Witness ==
    /\ last.decoded.opcode = "SBC"
    /\ last.outcome = "Continue"
    /\ last.before.status = 9
    /\ last.before.accumulator = 80
    /\ OperandByte = 42
    /\ result = "Panic"
    /\ accumulator = 80
    /\ status = 9
    /\ accumulated_instructions = 0

\* C24: update_from(b) sets N to (b >= 0x80) and Z to (b = 0) and leaves the
\* bits C, V, D, I, B and the unused bit 5 unchanged, for every byte b and
\* every status before
C24_UpdateFrom ==
    last.op = "update_from"
    => /\ Flag(status, NegativeMask) = (last.value >= 128)
       /\ Flag(status, ZeroMask) = (last.value = 0)
       /\ \A bit \in {0, 2, 3, 4, 5, 6} : Bit(status, bit) = Bit(last.before.status, bit)

\* update_from(0x80) on status 0x7F set N and cleared Z: 0xFD
C24_Witness ==
    /\ last.op = "update_from"
    /\ last.value = 128
    /\ last.before.status = 127
    /\ status = 253

\* the value of an offset byte as a signed number
Signed(nn) == IF nn >= 128 THEN nn - 256 ELSE nn

\* C25: for a Relative-mode instruction at any address a, 0xFFFE and 0xFFFF
\* included, with offset byte NN, disassemble prints $NN (AAAA) with
\* AAAA = (a + 2 + signed(NN)) mod 65536, the address the CPU's Relative
\* resolution yields when it executes that instruction
C25_RelativeTarget ==
    (/\ last.op = "disassemble"
     /\ decode(read(memory, last.address)).mode = "Relative")
    => LET nn == read(memory, (last.address + 1) % 65536)
           target == (last.address + 2 + Signed(nn)) % 65536
           ea == get_effective_address("Relative",
                                       [Cpu EXCEPT !.pc = (last.address + 1) % 65536])
       IN /\ result = "Ok"
          /\ last.line = Hex4(last.address) \o " "
                          \o decode(read(memory, last.address)).opcode
                          \o " $" \o Hex2(nn) \o " (" \o Hex4(target) \o ")"
          /\ ea.c.err = "Ok"
          /\ ea.v = target

RECURSIVE Gcd(_, _)
Gcd(a, b) == IF a = b THEN a ELSE IF a > b THEN Gcd(a - b, b) ELSE Gcd(a, b - a)

\* the run of the Euclid program has returned
EuclidDone == Len(calls) = 3 /\ ~running /\ last.outcome # "None"

\* C26: the Euclid program with VAR_A = a and VAR_B = b, a and b in 1..127,
\* terminates at its BRK with memory[0x0040] = memory[0x0041] = gcd(a, b); for
\* a = 126 and b = 49 the result is 7 after 72 instructions and 191 cycles,
\* with PC = 0xFFFE
C26_Euclid ==
    /\ result = "Ok"
    /\ running => accumulated_instructions < MaxGcdInstructions
    /\ EuclidDone
       => /\ Executed("BRK")
          /\ read(memory, 64) = Gcd(calls[1].value, calls[2].value)
          /\ read(memory, 65) = Gcd(calls[1].value, calls[2].value)
          /\ (calls[1].value = 126 /\ calls[2].value = 49)
             => /\ read(memory, 64) = 7
                /\ accumulated_instructions = 72
                /\ accumulated_cycles = 191
                /\ pc = SystemVectorIRQ

\* C27: when pre_execute yields Stop, step returns stop = true and the handler
\* does not run: A, X, Y, status, SP, memory and both counters are as before
C27_StopDoesNotExecute ==
    last.outcome = "Stop"
    => /\ result = "Ok"
       /\ last.is_break
       /\ RegistersUnchanged
       /\ status = last.before.status
       /\ sp = last.before.sp
       /\ memory = last.before.memory
       /\ accumulated_instructions = last.instructions
       /\ accumulated_cycles = last.cycles

\* an address trap stopped the step on LDA #1 and A is still 0
C27_Witness ==
    /\ last.outcome = "Stop"
    /\ last.address = 1024
    /\ last.decoded.opcode = "LDA"
    /\ OperandByte = 1
    /\ last.is_break
    /\ accumulator = 0
    /\ accumulated_instructions = 0

\* C28: a step with outcome Continue or StopAfter whose handler succeeds adds
\* 1 to accumulated_instructions and the instruction's base cycles to
\* accumulated_cycles and reports stop iff the outcome is StopAfter; with Stop
\* and Handled both counters are unchanged
C28_StepCounts ==
    /\ (last.outcome \in {"Continue", "StopAfter"} /\ result = "Ok")
       => /\ accumulated_instructions = last.instructions + 1
          /\ accumulated_cycles
                = last.cycles + decode(read(last.before.memory, last.address)).cycles
          /\ last.is_break = (last.outcome = "StopAfter")
    /\ last.outcome \in {"Stop", "Handled"}
       => /\ accumulated_instructions = last.instructions
          /\ accumulated_cycles = last.cycles

\* LDA #1, NOP and the BRK were counted: 3 instructions, 2 + 2 + 7 cycles, stop
C28_Witness ==
    /\ last.outcome = "StopAfter"
    /\ last.decoded.opcode = "BRK"
    /\ last.is_break
    /\ accumulated_instructions = 3
    /\ accumulated_cycles = 11

\* a Handled trap skipped the instruction without counting it
C28_WitnessHandled ==
    /\ last.outcome = "Handled"
    /\ ~last.is_break
    /\ Len(calls) = 2
    /\ accumulated_instructions = 1

\* what one step of a behaviour does to a run
C29_RunStep ==
    /\ (~running /\ running')
       => pc' = (IF calls'[Len(calls')].start_addr = None THEN SystemVectorReset
                 ELSE calls'[Len(calls')].start_addr[1])
    /\ running
       => /\ last'.address = pc
          /\ ~running' => \/ result' # "Ok"
                          \/ last'.is_break /\ last'.outcome \in {"Stop", "StopAfter"}
          /\ (result' = "Ok" /\ last'.outcome \in {"Continue", "Handled"}) => running'

\* run(Some(0x0600)) on JMP $0600 at 0x0600 has not returned
C29_LoopRuns ==
    (/\ calls # << >>
     /\ LastCall = [op |-> "run", start_addr |-> Some(LoopProgram.start)]
     /\ \A i \in 1..3 : read(memory, LoopProgram.start + i - 1) = LoopProgram.bytes[i])
    => running /\ result = "Ok"

\* C29: run sets PC to the start address, or to 0xFFFC for None, and steps in
\* sequence; it returns only right after a step that reported stop or raised
\* an error, never after a step with outcome Continue or Handled; on
\* JMP $0600 at 0x0600 it keeps stepping
C29_Run == [][C29_RunStep]_vars /\ []C29_LoopRuns

\* run(None) returned right after the BRK at the reset vector reported stop
C29_Witness ==
    /\ calls # << >>
    /\ LastCall = [op |-> "run", start_addr |-> None]
    /\ ~running
    /\ result = "Ok"
    /\ last.address = SystemVectorReset
    /\ last.outcome = "StopAfter"

\* the JMP loop has run to the bound of the model and is still running
C29_WitnessLoop ==
    /\ calls # << >>
    /\ LastCall = [op |-> "run", start_addr |-> Some(LoopProgram.start)]
    /\ last.decoded.opcode = "JMP"
    /\ last.address = LoopProgram.start
    /\ accumulated_instructions = MaxInstructions
    /\ running

\* the latest facade call was run or step and the handler of its last
\* instruction did not succeed
HandlerFailed ==
    /\ calls # << >>
    /\ LastCall.op \in {"run", "step"}
    /\ last.outcome \in {"Continue", "StopAfter"}
    /\ result # "Ok"

\* the error has left step and run, and the instruction was not counted
C30_ErrorPropagates ==
    HandlerFailed
    => /\ ~running
       /\ ~last.counted
       /\ accumulated_instructions = last.instructions
       /\ accumulated_cycles = last.cycles
       /\ (last.decoded.opcode = "RTS" /\ last.before.sp >= 254) => result = "StackOverflow"
       /\ (last.decoded.opcode = "INC"
           /\ InsideSome(last.before.ranges, OperandWord)) => result = "ReadOnlyMemory"

\* after an error only a new facade call executes an instruction
C30_NoFurtherStep ==
    (result # "Ok" /\ last' # last) => calls' # calls

\* C30: an error returned by an instruction handler during step propagates
\* out of step and out of run, the run loop executes no further instruction,
\* and the failed instruction is counted neither in accumulated_instructions
\* nor in accumulated_cycles
C30_HandlerError == []C30_ErrorPropagates /\ [][C30_NoFurtherStep]_vars

\* run stopped with StackOverflow on the RTS at 0x0600 and counted nothing
C30_Witness ==
    /\ HandlerFailed
    /\ LastCall.op = "run"
    /\ last.decoded.opcode = "RTS"
    /\ last.address = 1536
    /\ result = "StackOverflow"
    /\ ~running
    /\ accumulated_instructions = 0

\* run stopped with ReadOnlyMemory on INC $0600 in a read-only program
C30_WitnessInc ==
    /\ HandlerFailed
    /\ LastCall.op = "run"
    /\ last.decoded.opcode = "INC"
    /\ result = "ReadOnlyMemory"
    /\ read(memory, 1536) = 238
    /\ ~running

\* the addresses whose byte the last step changed
Written == {a \in (DOMAIN memory) \cup (DOMAIN last.before.memory) :
              read(memory, a) # read(last.before.memory, a)}

\* C31: in every state reached by reset, step, run and the stack
\* instructions the effective address of the stack pointer lies in
\* 0x0100..0x01FF, and every byte written by a push lies in page 0x01
C31_StackPage ==
    /\ sp_as_u16(Cpu) \in 256..511
    /\ last.decoded.opcode \in {"PHA", "PHP", "JSR", "BRK"} => Written \subseteq 256..511

\* JSR with SP = 0xFF wrote the two bytes at the top of page 0x01
C31_Witness ==
    /\ Executed("JSR")
    /\ last.before.sp = 255
    /\ Written # {}
    /\ sp_as_u16(Cpu) = 509

\* TXS moved the stack pointer and a push wrote below it
C31_WitnessTxs ==
    /\ Executed("PHA")
    /\ calls # << >>
    /\ Len(calls) >= 2
    /\ calls[Len(calls) - 1].opcode = "TXS"
    /\ last.before.sp = 165
    /\ Written = {256 + 165}

\* the location the last read-modify-write instruction worked on
OnAccumulator == last.decoded.mode = "Accumulator"
RmwOperand ==
    IF OnAccumulator THEN last.before.accumulator
    ELSE read(last.before.memory, RmwAddress(last.decoded.mode))
RmwResult ==
    IF OnAccumulator THEN accumulator
    ELSE read(memory, RmwAddress(last.decoded.mode))

FlagsKept(masks) ==
    \A m \in masks : Flag(status, m) = Flag(last.before.status, m)

\* C32: INC and DEC on a memory operand change only the target byte, to
\* (M + 1) mod 256 or (M - 1) mod 256, and the flags N and Z; C, V, D, I, B
\* and A, X, Y keep their values
C32_IncDecFrame ==
    (Executed("INC") \/ Executed("DEC"))
    => /\ RmwResult = (RmwOperand + (IF Executed("INC") THEN 1 ELSE 255)) % 256
       /\ Written \subseteq {RmwAddress(last.decoded.mode)}
       /\ Flag(status, NegativeMask) = (RmwResult >= 128)
       /\ Flag(status, ZeroMask) = (RmwResult = 0)
       /\ FlagsKept({CarryMask, OverflowMask, DecimalMask, InterruptMask, BreakMask})
       /\ RegistersUnchanged

\* the same without the carry flag, which INC and DEC clear
C32_IncDecFrameButCarry ==
    (Executed("INC") \/ Executed("DEC"))
    => /\ RmwResult = (RmwOperand + (IF Executed("INC") THEN 1 ELSE 255)) % 256
       /\ Written \subseteq {RmwAddress(last.decoded.mode)}
       /\ Flag(status, NegativeMask) = (RmwResult >= 128)
       /\ Flag(status, ZeroMask) = (RmwResult = 0)
       /\ FlagsKept({OverflowMask, DecimalMask, InterruptMask, BreakMask})
       /\ ~Flag(status, CarryMask)
       /\ RegistersUnchanged

ShiftMnemonics == {"ASL", "LSR", "ROL", "ROR"}

\* what the four shifts give for operand v and carry-in k: <<result, carry>>
Shifted(mn, v, k) ==
    CASE mn = "ASL" -> <<(v * 2) % 256, v >= 128>>
      [] mn = "LSR" -> <<v \div 2, v % 2 = 1>>
      [] mn = "ROL" -> <<BitOr((v * 2) % 256, k), v >= 128>>
      [] mn = "ROR" -> <<BitOr(v \div 2, k * 128), v % 2 = 1>>

\* C33: ASL, LSR, ROL and ROR applied to A in Accumulator mode or to the
\* byte at the effective address give the shifted or rotated byte and the
\* carry of the bit shifted out, N and Z follow the result (N = 0 after LSR),
\* and the location the mode does not select is unchanged
C33_Shifts ==
    (last.counted /\ last.decoded.opcode \in ShiftMnemonics)
    => /\ RmwResult = Shifted(last.decoded.opcode, RmwOperand, CarryIn)[1]
       /\ Flag(status, CarryMask) = Shifted(last.decoded.opcode, RmwOperand, CarryIn)[2]
       /\ Flag(status, NegativeMask) = (RmwResult >= 128)
       /\ Flag(status, ZeroMask) = (RmwResult = 0)
       /\ (last.decoded.opcode = "LSR") => ~Flag(status, NegativeMask)
       /\ (IF OnAccumulator THEN memory = last.before.memory
           ELSE /\ accumulator = last.before.accumulator
                /\ Written \subseteq {RmwAddress(last.decoded.mode)})

\* ROR of 0x01 in memory with the carry set gave 0x80 and left the carry set
C33_Witness ==
    /\ Executed("ROR")
    /\ ~OnAccumulator
    /\ RmwOperand = 1
    /\ CarryIn = 1
    /\ RmwResult = 128
    /\ Flag(status, CarryMask)
    /\ Flag(status, NegativeMask)

\* ROL of 0x80 in the accumulator with the carry clear gave 0 and Z
C33_WitnessAccumulator ==
    /\ Executed("ROL")
    /\ OnAccumulator
    /\ RmwOperand = 128
    /\ CarryIn = 0
    /\ accumulator = 0
    /\ Flag(status, ZeroMask)
    /\ Flag(status, CarryMask)

\* the operand bytes a mode has
OperandSize(mode) ==
    IF mode \in {"Implied", "Accumulator"} THEN 0
    ELSE IF mode \in {"Absolute", "AbsoluteX", "AbsoluteY", "Indirect"} THEN 2
    ELSE 1

\* the modes a resolver rejects
Rejected(op) ==
    IF op = "get_effective_address" THEN {"Implied", "Accumulator", "Immediate"}
    ELSE {"Implied", "Relative"}

ResolverCalled == last.op \in {"get_effective_address", "get_effective_operand"}

\* C36: a resolution that returns advances PC by the operand size of its
\* mode (0 for Accumulator, 1 for the one-byte modes, 2 for Absolute,
\* AbsoluteX, AbsoluteY and Indirect); a mode the resolver rejects gives
\* InvalidAddressingMode and leaves PC where it was
C36_OperandSize ==
    ResolverCalled
    => /\ result = "Ok" => pc = (last.before.pc + OperandSize(last.mode)) % 65536
       /\ last.mode \in Rejected(last.op)
          => result = "InvalidAddressingMode" /\ pc = last.before.pc
       /\ result = "InvalidAddressingMode" => last.mode \in Rejected(last.op)

\* an Absolute operand at 0x0300 resolved and PC is 0x0302
C36_Witness ==
    /\ last.op = "get_effective_address"
    /\ last.mode = "Absolute"
    /\ result = "Ok"
    /\ last.before.pc = 768
    /\ pc = 770
    /\ last.returned = 4848

\* Immediate was rejected by get_effective_address with PC left at 0x0300
C36_WitnessRejected ==
    /\ last.op = "get_effective_address"
    /\ last.mode = "Immediate"
    /\ result = "InvalidAddressingMode"
    /\ pc = 768

\* base and index of an indexed resolution: the operand word and X or Y, or
\* the zero-page word at the operand byte and Y
IndexedBase ==
    LET b == last.before
        lo == read(b.memory, b.pc)
    IN IF last.mode = "IndirectIndexedY"
       THEN read(b.memory, (lo + 1) % 256) * 256 + read(b.memory, lo)
       ELSE read(b.memory, (b.pc + 1) % 65536) * 256 + lo
IndexedBy ==
    IF last.mode = "AbsoluteX" THEN last.before.index_x ELSE last.before.index_y

\* C37: AbsoluteX, AbsoluteY and IndirectIndexedY resolution succeeds for
\* every base and index and yields (base + index) mod 65536 (stated for
\* operand bytes at 0x0300 and a pointer that does not straddle the end of
\* the zero page)
C37_IndexedWraps ==
    (last.op = "get_effective_address"
     /\ last.mode \in {"AbsoluteX", "AbsoluteY", "IndirectIndexedY"}
     /\ last.before.pc = 768
     /\ ~(last.mode = "IndirectIndexedY" /\ read(last.before.memory, 768) = 255))
    => /\ result = "Ok"
       /\ last.returned = (IndexedBase + IndexedBy) % 65536

\* the same where base + index stays below 0x10000, or where the build has
\* no overflow checks and the sum wraps
C37_IndexedInRange ==
    (last.op = "get_effective_address"
     /\ last.mode \in {"AbsoluteX", "AbsoluteY", "IndirectIndexedY"}
     /\ last.before.pc = 768
     /\ ~(last.mode = "IndirectIndexedY" /\ read(last.before.memory, 768) = 255)
     /\ (IndexedBase + IndexedBy < 65536 \/ ~overflow_checks))
    => /\ result = "Ok"
       /\ last.returned = (IndexedBase + IndexedBy) % 65536

\* the latest call was a step that executed instruction mn
JustExecuted(mn) ==
    /\ calls # << >>
    /\ LastCall.op = "step"
    /\ Executed(mn)

\* the two latest calls were steps that executed PHP and then PLP
PhpThenPlp ==
    /\ Len(calls) >= 2
    /\ calls[Len(calls) - 1].op = "step"
    /\ calls[Len(calls) - 1].counted
    /\ calls[Len(calls) - 1].opcode = "PHP"
    /\ JustExecuted("PLP")

\* C34: PHP pushes status & 0xCF and leaves the status register; PLP sets
\* status to the pulled byte & 0xCF; PHP followed by PLP leaves SP unchanged
\* and status equal to the prior status & 0xCF; neither changes A, X or Y
C34_PhpPlp ==
    /\ JustExecuted("PHP")
       => /\ read(memory, 256 + last.before.sp) = BitAnd(last.before.status, 207)
          /\ sp = (last.before.sp + 255) % 256
          /\ status = last.before.status
          /\ RegistersUnchanged
    /\ JustExecuted("PLP")
       => /\ status = BitAnd(read(last.before.memory, 256 + sp), 207)
          /\ sp = (last.before.sp + 1) % 256
          /\ RegistersUnchanged
    /\ PhpThenPlp
       => /\ sp = calls[Len(calls) - 1].sp
          /\ status = BitAnd(calls[Len(calls) - 1].status, 207)

\* PHP then PLP with status 0x51 and SP 0x80 left status 0x41 and SP 0x80
C34_Witness ==
    /\ PhpThenPlp
    /\ calls[Len(calls) - 1].status = 81
    /\ status = 65
    /\ sp = 128
    /\ read(memory, 256 + 128) = 65

\* C35: TXS sets the stack pointer to 0x0100 | X for every X and leaves
\* every status flag, N and Z included, and A, X, Y unchanged
C35_TxsFrame ==
    JustExecuted("TXS")
    => /\ sp_as_u16(Cpu) = 256 + last.before.index_x
       /\ status = last.before.status
       /\ RegistersUnchanged

\* what TXS does: the stack pointer and the registers as claimed, N and Z
\* taken from X
C35_TxsUpdatesFlags ==
    JustExecuted("TXS")
    => /\ sp_as_u16(Cpu) = 256 + last.before.index_x
       /\ status = update_from(last.before.status, last.before.index_x)
       /\ RegistersUnchanged

\* C40: in every state reached by reset, step and run, bit 5 of the status
\* register is 0
C40_UnusedBitClear == Bit(status, 5) = 0

\* PLP pulled 0xFF and the status register holds 0xCF
C40_Witness ==
    /\ JustExecuted("PLP")
    /\ read(last.before.memory, 256 + sp) = 255
    /\ status = 207

\* RTI pulled 0xFF as the status byte, and BRK pushed and set B
C40_WitnessRti ==
    /\ JustExecuted("RTI")
    /\ read(last.before.memory, 256 + last.before.sp + 1) = 255
    /\ status = 207
    /\ calls[1].op = "step"
    /\ calls[1].opcode = "BRK"

\* the last step was stopped by an address trap at its own address
StoppedByAddressTrap ==
    /\ last.outcome = "Stop"
    /\ \E i \in DOMAIN address_traps : address_traps[i].address = last.address

\* C38: when a step stops on an address trap registered at a with outcome
\* Stop, PC afterwards equals a, so that a resumed step or run starts at the
\* opcode byte of the instruction at a
C38_StopKeepsPc ==
    StoppedByAddressTrap => pc = last.address

\* what step() leaves: PC one past the opcode byte fetch_and_decode consumed
C38_StopLeavesPcPastOpcode ==
    StoppedByAddressTrap => pc = (last.address + 1) % 65536

\* the counters do not decrease in a step of a behaviour, except that
\* reset() sets both to 0; run() starts from the counters it finds
C39_CounterStep ==
    /\ (calls' # calls /\ calls'[Len(calls')].op = "reset")
       => accumulated_instructions' = 0 /\ accumulated_cycles' = 0
    /\ ~(calls' # calls /\ calls'[Len(calls')].op = "reset")
       => /\ accumulated_instructions' >= accumulated_instructions
          /\ accumulated_cycles' >= accumulated_cycles
    /\ (calls' # calls /\ calls'[Len(calls')].op \in {"run", "load_program", "set_pc", "set_byte_at"})
       => /\ accumulated_instructions' = accumulated_instructions
          /\ accumulated_cycles' = accumulated_cycles
    /\ (last' # last /\ last'.counted)
       => /\ accumulated_instructions' = accumulated_instructions + 1
          /\ accumulated_cycles' = accumulated_cycles + last'.decoded.cycles

\* C39: across step, run, load_program, set_pc and set_byte_at calls the
\* counters never decrease, only reset() sets them to 0, and run() does not
\* clear them, so that a second run adds to the counters of the first
C39_CountersAccumulate == [][C39_CounterStep]_vars

\* SimpleProgram run twice from 0x0600: the second run of 3 instructions
\* and 12 cycles has returned with the counters at 6 and 24
C39_Witness ==
    /\ Len(calls) = 3
    /\ calls[1] = LoadSimple
    /\ calls[2] = [op |-> "run", start_addr |-> Some(SimpleProgram.start)]
    /\ calls[3] = calls[2]
    /\ ~running
    /\ accumulated_instructions = 6
    /\ accumulated_cycles = 24

\* reset() after a run brought both counters back to 0
C39_WitnessReset ==
    /\ Len(calls) = 3
    /\ calls[2].op = "run"
    /\ calls[3].op = "reset"
    /\ last.counted
    /\ accumulated_instructions = 0
    /\ accumulated_cycles = 0
====
